-------------------------- MODULE SettingsProofs --------------------------
(***************************************************************************)
(* The safety of Settings for any settings, values, devices and number of  *)
(* windows.                                                                *)
(*                                                                         *)
(* The invariant has three parts.  A window by itself: what it keeps has   *)
(* its type, and a control its user did not touch shows what OnPrepare     *)
(* loaded.  A window and the registry: a setting nobody else stored since  *)
(* still loads as it did, or, once OnExit has passed it, as its control    *)
(* showed it.  The window in OnExit: it stays "ready" until the last       *)
(* setting is stored.                                                      *)
(***************************************************************************)
EXTENDS Settings, Lemmas

-----------------------------------------------------------------------------
(* The order of OnExit has every setting of the instance once.             *)

Lists(s, S) ==
    /\ s \in Seq(S)
    /\ \A f \in S : \E i \in 1..Len(s) : s[i] = f
    /\ \A i, j \in 1..Len(s) : s[i] = s[j] => i = j

\* OnExit names each of the seven settings once.
LEMMA SaveOrderFacts ==
    /\ \A i, j \in 1..7 : SaveOrder[i] = SaveOrder[j] => i = j
    /\ Range(SaveOrder) = {SaveOrder[i] : i \in 1..7}
  BY DEF SaveOrder, Range

\* The settings that are kept of the first n.
Until(n) == {SaveOrder[i] : i \in 1..n} \cap Fields

\* One more setting of SaveOrder.
LEMMA ListsKept ==
    ASSUME NEW s, NEW n \in 1..7, Lists(s, Until(n - 1))
    PROVE  Lists(s \o Kept(n), Until(n))
  <1>1. Until(n) = Until(n - 1) \cup ({SaveOrder[n]} \cap Fields)
    BY DEF Until
  <1>2. CASE SaveOrder[n] \notin Fields
    <2>1. Until(n) = Until(n - 1) BY <1>1, <1>2
    <2>2. Kept(n) = <<>> BY <1>2 DEF Kept
    <2>3. s \o <<>> = s BY ConcatEmptySeq DEF Lists
    <2> QED BY <2>1, <2>2, <2>3
  <1>3. CASE SaveOrder[n] \in Fields
    <2> DEFINE f == SaveOrder[n]
               S == Until(n)
    <2>1. f \in S /\ f \notin Until(n - 1) /\ Until(n - 1) \subseteq S
          /\ S = Until(n - 1) \cup {f}
      BY <1>1, <1>3, SaveOrderFacts DEF Until
    <2>2. Kept(n) = <<f>> BY <1>3 DEF Kept
    <2>3. s \in Seq(S) BY <2>1 DEF Lists
    <2> HIDE DEF f, S
    <2>4. /\ s \o <<f>> \in Seq(S) /\ Len(s \o <<f>>) = Len(s) + 1
          /\ \A i \in 1..Len(s) : (s \o <<f>>)[i] = s[i]
          /\ (s \o <<f>>)[Len(s) + 1] = f
      BY <2>1, <2>3
    <2>5. \A i \in 1..Len(s) : s[i] # f BY <2>1 DEF Lists
    <2>6. \A g \in S : \E i \in 1..(Len(s) + 1) : (s \o <<f>>)[i] = g
      <3> TAKE g \in S
      <3>1. CASE g = f BY <3>1, <2>3, <2>4
      <3>2. CASE g # f
        <4>1. PICK i \in 1..Len(s) : s[i] = g BY <3>2, <2>1 DEF Lists
        <4> QED BY <4>1, <2>3, <2>4
      <3> QED BY <3>1, <3>2
    <2>7. \A i, j \in 1..(Len(s) + 1) : (s \o <<f>>)[i] = (s \o <<f>>)[j] => i = j
      BY <2>3, <2>4, <2>5 DEF Lists
    <2> QED BY <2>2, <2>4, <2>6, <2>7 DEF Lists, S
  <1> QED BY <1>2, <1>3

\* OnExit looks at every setting of the instance exactly once.
LEMMA OrderFacts ==
    /\ Order \in Seq(Fields) /\ Len(Order) \in Nat \ {0}
    /\ \A f \in Fields : \E i \in 1..Len(Order) : Order[i] = f
    /\ \A i, j \in 1..Len(Order) : Order[i] = Order[j] => i = j
  <1>2. Lists(Kept(1), Until(1))
    <2>1. Until(1) = {SaveOrder[1]} \cap Fields BY DEF Until
    <2>2. CASE SaveOrder[1] \in Fields
      <3>1. Until(1) = {SaveOrder[1]} /\ Kept(1) = <<SaveOrder[1]>>
        BY <2>1, <2>2 DEF Kept
      <3> DEFINE f == SaveOrder[1]
      <3>2. <<f>> \in Seq({f}) /\ <<f>>[1] = f OBVIOUS
      <3>3. 1..Len(<<f>>) = {1} OBVIOUS
      <3>4. Lists(<<f>>, {f}) BY <3>2, <3>3, Zenon DEF Lists
      <3> QED BY <3>1, <3>4
    <2>3. CASE SaveOrder[1] \notin Fields
      <3>1. Until(1) = {} /\ Kept(1) = <<>> BY <2>1, <2>3 DEF Kept
      <3>2. <<>> \in Seq({}) /\ 1..Len(<<>>) = {} BY EmptySeq
      <3>3. Lists(<<>>, {}) BY <3>2, Zenon DEF Lists
      <3> QED BY <3>1, <3>3
    <2> QED BY <2>2, <2>3
  <1>3. Lists(Kept(1) \o Kept(2), Until(2)) BY <1>2, ListsKept
  <1>4. Lists(Kept(1) \o Kept(2) \o Kept(3), Until(3)) BY <1>3, ListsKept
  <1>5. Lists(Kept(1) \o Kept(2) \o Kept(3) \o Kept(4), Until(4)) BY <1>4, ListsKept
  <1>6. Lists(Kept(1) \o Kept(2) \o Kept(3) \o Kept(4) \o Kept(5), Until(5))
    BY <1>5, ListsKept
  <1>7. Lists(Kept(1) \o Kept(2) \o Kept(3) \o Kept(4) \o Kept(5) \o Kept(6),
              Until(6))
    BY <1>6, ListsKept
  <1>8. Lists(Order, Until(7)) BY <1>7, ListsKept DEF Order
  <1>9. Until(7) = Fields BY SaveOrderFacts, SettingsAssumption DEF Until
  <1>10. Lists(Order, Fields) BY <1>8, <1>9
  <1> QED BY <1>10, SettingsAssumption DEF Lists

-----------------------------------------------------------------------------
(* The invariant.                                                          *)

Content == [Fields -> Int \cup Strs]

\* Settings objects with all their members.
WindowRecords ==
    [st : {"created", "ready", "saved", "closed"}, devices : DeviceLists,
     playing : SUBSET Tests, loaded : Content, shown : Content,
     touched : SUBSET Fields, stale : SUBSET Fields]

\* A window by itself.
Consistent(r) ==
    /\ \A f \in Fields : /\ r.loaded[f] \in Values(f) /\ r.shown[f] \in Values(f)
                         /\ Taken(f, r.loaded[f]) = r.loaded[f]
    /\ r.st = "ready" =>
          \A f \in Fields \ r.touched : r.shown[f] = Show(f, r.loaded[f], r.devices)

\* The settings that OnExit has passed.
Done == {Order[i] : i \in 1..(next - 1)}

\* A window and the registry.
InSync(w) ==
    LET r == windows[w] IN
    r.st \in {"ready", "saved"} =>
        \A f \in Fields \ r.stale :
            Load(f) = IF r.st = "saved" \/ (w = saver /\ f \in Done)
                      THEN Taken(f, r.shown[f]) ELSE r.loaded[f]

\* The window in OnExit.
SaverInv == IF saver = 0 THEN next = 1 ELSE windows[saver].st = "ready"

\* The types, with no returned window on top of the stack.
WindowTypes ==
    /\ hkcu \in [Fields -> Registered] /\ hku \in [Fields -> Registered]
    /\ windows \in Seq(WindowRecords)
    /\ windows # <<>> => Last(windows).st # "closed"
    /\ saver \in 0..Len(windows) /\ next \in 1..Len(Order)
    /\ testing \in SUBSET Tests /\ changes \in 0..MaxChanges

\* The inductive invariant.
SettingsInv ==
    /\ WindowTypes /\ SaverInv /\ TestOwned
    /\ \A w \in 1..Len(windows) : Consistent(windows[w]) /\ InSync(w)

-----------------------------------------------------------------------------
(* The operators.                                                          *)

\* The constants, and the kinds of settings.
LEMMA Constants ==
    /\ Combos \subseteq Texts /\ Texts \cap Sliders = {}
    /\ "WebSocketPort" \notin Texts \cup Sliders
    /\ Empty \in Strs /\ NoBytes \in Strs /\ Strings \subseteq Strs
    /\ \A d \in DeviceLists : d \in Seq(STRING) /\ Range(d) \subseteq Strs
    /\ Numbers \subseteq Int /\ WordOf \in Int /\ SliderMax = 255
  <1>1. /\ Combos \subseteq Texts /\ Texts \cap Sliders = {}
        /\ "WebSocketPort" \notin Texts \cup Sliders
    BY DEF Combos, Texts, Sliders
  <1>2. Empty \in Strs /\ NoBytes \in Strs /\ Strings \subseteq Strs
    BY DEF Strs
  <1>3. ASSUME NEW d \in DeviceLists PROVE d \in Seq(STRING) /\ Range(d) \subseteq Strs
    <2>1. d \in Seq(STRING) BY SettingsAssumption
    <2>2. Range(d) \subseteq Strs BY Zenon DEF Strs
    <2> QED BY <2>1, <2>2
  <1>4. Numbers \subseteq Int BY SettingsAssumption
  <1> QED BY <1>1, <1>2, <1>3, <1>4 DEF WordOf, SliderMax

\* What the two conversions of a port give.
LEMMA TakenFacts ==
    ASSUME NEW f \in Fields, NEW v \in Values(f)
    PROVE  /\ Taken(f, v) \in Values(f)
           /\ Taken(f, Taken(f, v)) = Taken(f, v)
  <1>1. CASE f = "WebSocketPort"
    <2>1. v \in Int BY <1>1, Constants DEF Values
    <2>2. Taken(f, v) = v % 65536 BY <1>1 DEF Taken, UInt16
    <2>3. v % 65536 \in 0..65535 /\ (v % 65536) % 65536 = v % 65536 BY <2>1
    <2>4. Values(f) = Int BY <1>1, Constants DEF Values
    <2>5. Taken(f, v % 65536) = (v % 65536) % 65536 BY <1>1 DEF Taken, UInt16
    <2> QED BY <2>2, <2>3, <2>4, <2>5
  <1>2. CASE f # "WebSocketPort" BY <1>2 DEF Taken
  <1> QED BY <1>1, <1>2

\* Whatever pages have stored, a setting is loaded with the type its control
\* has.
LEMMA LoadFacts ==
    ASSUME hkcu \in [Fields -> Registered], hku \in [Fields -> Registered],
           NEW f \in Fields
    PROVE  Load(f) \in Values(f) /\ Taken(f, Load(f)) = Load(f)
  <1>1. hkcu[f] \in Registered /\ hku[f] \in Registered OBVIOUS
  <1>2. CASE f \in Texts
    <2>1. ReadRegKeyString(f) \in Strs
      BY <1>1, Constants DEF ReadRegKeyString, Registered, Bytes
    <2> QED BY <1>2, <2>1, Constants DEF Load, Values, Taken
  <1>3. CASE f \notin Texts
    <2>1. Default(f) \in Int BY DEF Default
    <2>2. ReadRegKeyDWORD(f, Default(f)) \in Int
      BY <1>1, <2>1, Constants DEF ReadRegKeyDWORD, Registered
    <2> HIDE DEF ReadRegKeyDWORD
    <2> QED BY <1>3, <2>2 DEF Load, Values, Taken, UInt16
  <1> QED BY <1>2, <1>3

\* Show makes of a value one that the control can hold.
LEMMA ShowFacts ==
    ASSUME NEW f \in Fields, NEW v \in Values(f), NEW d \in DeviceLists
    PROVE  Show(f, v, d) \in Values(f)
  <1>1. CASE f \in Sliders
    <2>1. v \in Int /\ Values(f) = Int BY <1>1, Constants DEF Values
    <2>2. Show(f, v, d) = IF v > SliderMax THEN SliderMax ELSE IF v < 0 THEN 0 ELSE v
      <3>1. f \notin Combos BY <1>1, Constants
      <3> QED BY <1>1, <3>1 DEF Show
    <2> QED BY <2>1, <2>2 DEF SliderMax
  <1>2. CASE f \in Combos
    <2>1. d # <<>> => d[1] \in Range(d)
      <3> HAVE d # <<>>
      <3>1. d \in Seq(STRING) BY Constants
      <3>2. 1 \in DOMAIN d BY <3>1
      <3> QED BY <3>2 DEF Range
    <2>2. Values(f) = Strs /\ Range(d) \subseteq Strs /\ Empty \in Strs /\ f \notin Sliders
      BY <1>2, Constants DEF Values
    <2>3. Show(f, v, d) = IF v \in Range(d) THEN v
                          ELSE IF d = <<>> THEN Empty ELSE d[1]
      BY <1>2, <2>2 DEF Show
    <2> QED BY <2>1, <2>2, <2>3
  <1>3. CASE f \notin Sliders \cup Combos BY <1>3 DEF Show
  <1> QED BY <1>1, <1>2, <1>3

\* What a window stores is what the next one loads.
LEMMA StoredFacts ==
    ASSUME NEW f \in Fields, NEW v \in Values(f)
    PROVE  /\ Stored(f, v) \in Registered
           /\ hkcu'[f] = Stored(f, Taken(f, v)) => Load(f)' = Taken(f, v)
  <1>1. Stored(f, v) \in Registered
    <2>1. CASE f \in Texts
      <3>1. v \in Strs /\ Stored(f, v) = Sz(v) BY <2>1 DEF Values, Stored
      <3> QED BY <3>1 DEF Registered, Sz
    <2>2. CASE f \notin Texts
      <3>1. v \in Int /\ Stored(f, v) = Dword(v) BY <2>2 DEF Values, Stored
      <3> QED BY <3>1, Constants DEF Registered, Dword
    <2> QED BY <2>1, <2>2
  <1>2. ASSUME hkcu'[f] = Stored(f, Taken(f, v)) PROVE Load(f)' = Taken(f, v)
    <2>1. CASE f \in Texts
      <3>1. hkcu'[f].type = "sz" /\ hkcu'[f].s = Taken(f, v)
        BY <1>2, <2>1 DEF Stored, Sz
      <3> QED BY <2>1, <3>1 DEF Load, ReadRegKeyString
    <2>2. CASE f \notin Texts
      <3>0. hkcu'[f] = Dword(Taken(f, v)) BY <1>2, <2>2 DEF Stored
      <3>1. hkcu'[f].type = "dword" /\ hkcu'[f].n = Taken(f, v) BY <3>0 DEF Dword
      <3>2. ReadRegKeyDWORD(f, Default(f))' = Taken(f, v)
        BY <3>1 DEF ReadRegKeyDWORD
      <3>3. v \in Int BY <2>2 DEF Values
      <3> QED BY <2>2, <3>2, <3>3 DEF Load, Taken, UInt16
    <2> QED BY <2>1, <2>2
  <1> QED BY <1>1, <1>2

\* A setting nobody stores loads as before.
LEMMA LoadSame ==
    ASSUME NEW f, hkcu'[f] = hkcu[f], hku'[f] = hku[f]
    PROVE  Load(f)' = Load(f)
  BY DEF Load, ReadRegKeyString, ReadRegKeyDWORD

\* A settings object whose window is not yet, or no longer, there.
LEMMA CreatedFacts ==
    ASSUME NEW d \in DeviceLists
    PROVE  /\ Created(d) \in WindowRecords /\ Created(d).st = "created"
           /\ Consistent(Created(d))
  <1> DEFINE zero == [f \in Fields |-> IF f \in Texts THEN Empty ELSE 0]
             shown == [f \in Fields |-> Show(f, zero[f], d)]
  <1>1. \A f \in Fields : zero[f] \in Values(f) /\ Taken(f, zero[f]) = zero[f]
    <2> TAKE f \in Fields
    <2>1. zero[f] \in Values(f) BY Constants DEF Values
    <2>2. CASE f = "WebSocketPort"
      <3>1. zero[f] = 0 BY <2>2, Constants
      <3> QED BY <2>1, <2>2, <3>1 DEF Taken, UInt16
    <2>3. CASE f # "WebSocketPort" BY <2>1, <2>3 DEF Taken
    <2> QED BY <2>2, <2>3
  <1>2. \A f \in Fields : shown[f] \in Values(f) BY <1>1, ShowFacts
  <1>3. zero \in Content /\ shown \in Content BY <1>1, <1>2 DEF Content, Values
  <1>4. Created(d) = [st |-> "created", devices |-> d, playing |-> {},
                      loaded |-> zero, shown |-> shown, touched |-> {}, stale |-> {}]
    BY DEF Created
  <1> HIDE DEF zero, shown
  <1> QED BY <1>1, <1>2, <1>3, <1>4 DEF WindowRecords, Consistent

\* A destroyed window keeps nothing but its tests.
LEMMA GoneFacts ==
    ASSUME NEW r \in WindowRecords
    PROVE  /\ Gone(r) \in WindowRecords /\ Consistent(Gone(r))
           /\ Gone(r).st = "closed" /\ Gone(r).playing = r.playing
  <1>1. r.devices \in DeviceLists /\ r.playing \in SUBSET Tests BY DEF WindowRecords
  <1>2. Created(r.devices) \in WindowRecords /\ Consistent(Created(r.devices))
    BY <1>1, CreatedFacts
  <1> HIDE DEF Created
  <1> QED BY <1>1, <1>2 DEF Gone, WindowRecords, Consistent

-----------------------------------------------------------------------------
(* Steps of the windows, outside OnExit.                                   *)

\* InSync for a window that is not in OnExit.
Fits(r) ==
    r.st \in {"ready", "saved"} =>
        \A f \in Fields \ r.stale :
            Load(f) = IF r.st = "saved" THEN Taken(f, r.shown[f]) ELSE r.loaded[f]

\* It is enough to look at each window there is after such a step.
LEMMA WindowStep ==
    ASSUME SettingsInv, Idle, UNCHANGED <<hkcu, hku, saver, next>>,
           windows' \in Seq(WindowRecords),
           windows' # <<>> => Last(windows').st # "closed",
           \A w \in 1..Len(windows') :
               Consistent(windows'[w]) /\ Fits(windows'[w]),
           testing' \in SUBSET Tests, changes' \in 0..MaxChanges, TestOwned'
    PROVE  SettingsInv'
  <1>1. saver = 0 /\ saver' = 0 /\ Len(windows') \in Nat BY DEF Idle
  <1>2. WindowTypes' BY <1>1 DEF WindowTypes, SettingsInv
  <1>3. SaverInv' BY <1>1 DEF SettingsInv, SaverInv
  <1>4. ASSUME NEW w \in 1..Len(windows') PROVE InSync(w)'
    <2>1. \A f : Load(f)' = Load(f) BY LoadSame
    <2>2. w # saver' BY <1>1
    <2>3. Fits(windows'[w]) OBVIOUS
    <2> QED BY <2>1, <2>2, <2>3 DEF InSync, Fits
  <1>5. (\A w \in 1..Len(windows) : Consistent(windows[w]) /\ InSync(w))'
    BY <1>4
  <1> QED BY <1>2, <1>3, <1>5 DEF SettingsInv

\* Outside OnExit every window fits.
LEMMA IdleFits ==
    ASSUME SettingsInv, Idle, NEW w \in 1..Len(windows)
    PROVE  /\ windows[w] \in WindowRecords
           /\ Consistent(windows[w]) /\ Fits(windows[w])
  <1>1. w # saver BY DEF Idle
  <1>2. InSync(w) /\ Consistent(windows[w]) BY DEF SettingsInv
  <1>3. windows[w] \in WindowRecords BY DEF SettingsInv, WindowTypes
  <1> QED BY <1>1, <1>2, <1>3 DEF InSync, Fits

\* A handler of one window.
LEMMA UpdateStep ==
    ASSUME SettingsInv, Idle, UNCHANGED <<hkcu, hku, saver, next>>,
           NEW w \in 1..Len(windows), NEW r \in WindowRecords, Update(w, r),
           Consistent(r), Fits(r), r.st # "closed",
           testing' \in SUBSET Tests, changes' \in 0..MaxChanges, TestOwned'
    PROVE  SettingsInv'
  <1>1. windows \in Seq(WindowRecords) /\ (windows # <<>> => Last(windows).st # "closed")
    BY DEF SettingsInv, WindowTypes
  <1>2. /\ windows' \in Seq(WindowRecords) /\ Len(windows') = Len(windows)
        /\ \A i \in 1..Len(windows) : windows'[i] = IF i = w THEN r ELSE windows[i]
    BY <1>1, ExceptSeq DEF Update
  <1>3. windows' # <<>> => Last(windows').st # "closed" BY <1>1, <1>2 DEF Last
  <1>4. \A i \in 1..Len(windows') : Consistent(windows'[i]) /\ Fits(windows'[i])
    BY <1>2, IdleFits
  <1> QED BY <1>2, <1>3, <1>4, WindowStep

\* A new window.
LEMMA SettingsBtnStep ==
    ASSUME SettingsInv, SettingsBtn
    PROVE  SettingsInv'
  <1>1. PICK d \in DeviceLists : windows' = Append(windows, Created(d))
    BY DEF SettingsBtn
  <1>2. /\ Created(d) \in WindowRecords /\ Consistent(Created(d))
        /\ Created(d).st = "created"
    BY CreatedFacts
  <1> HIDE DEF Created
  <1>3. windows \in Seq(WindowRecords) BY DEF SettingsInv, WindowTypes
  <1>4. /\ windows' \in Seq(WindowRecords) /\ Len(windows') = Len(windows) + 1
        /\ \A i \in 1..Len(windows) : windows'[i] = windows[i]
        /\ windows'[Len(windows) + 1] = Created(d)
    BY <1>1, <1>2, <1>3, AppendProperties
  <1>5. Last(windows').st # "closed" BY <1>2, <1>4 DEF Last
  <1>6. \A i \in 1..Len(windows') : Consistent(windows'[i]) /\ Fits(windows'[i])
    <2> TAKE i \in 1..Len(windows')
    <2>1. CASE i \in 1..Len(windows) BY <2>1, <1>4, IdleFits DEF SettingsBtn
    <2>2. CASE i = Len(windows) + 1 BY <2>2, <1>2, <1>4 DEF Fits
    <2> QED BY <2>1, <2>2, <1>3, <1>4
  <1>7. TestOwned'
    <2>1. ASSUME NEW k \in testing PROVE \E w \in DOMAIN windows' : k \in windows'[w].playing
      <3>1. PICK w \in DOMAIN windows : k \in windows[w].playing
        BY DEF SettingsInv, TestOwned
      <3> QED BY <3>1, <1>3, <1>4
    <2> QED BY <2>1 DEF TestOwned, SettingsBtn
  <1>8. testing' \in SUBSET Tests /\ changes' \in 0..MaxChanges
    BY DEF SettingsBtn, SettingsInv, WindowTypes
  <1> QED BY <1>4, <1>5, <1>6, <1>7, <1>8, WindowStep DEF SettingsBtn

\* A test that runs keeps its window when one window is updated and the tests
\* that stop are stopped.
LEMMA TestsStep ==
    ASSUME SettingsInv, NEW w \in 1..Len(windows), NEW r \in WindowRecords,
           Update(w, r), testing' \subseteq testing \cup r.playing,
           windows[w].playing \cap testing' \subseteq r.playing
    PROVE  TestOwned'
  <1>1. windows \in Seq(WindowRecords) BY DEF SettingsInv, WindowTypes
  <1>2. /\ DOMAIN windows' = DOMAIN windows
        /\ \A i \in DOMAIN windows : windows'[i] = IF i = w THEN r ELSE windows[i]
    BY <1>1 DEF Update
  <1>3. w \in DOMAIN windows BY <1>1
  <1>4. ASSUME NEW k \in testing' PROVE \E i \in DOMAIN windows' : k \in windows'[i].playing
    <2>1. CASE k \in r.playing BY <2>1, <1>2, <1>3
    <2>2. CASE k \notin r.playing
      <3>1. k \in testing BY <2>2
      <3>2. PICK i \in DOMAIN windows : k \in windows[i].playing
        BY <3>1 DEF SettingsInv, TestOwned
      <3>3. i # w BY <3>2, <2>2
      <3> QED BY <3>2, <3>3, <1>2
    <2> QED BY <2>1, <2>2
  <1> QED BY <1>4 DEF TestOwned

\* A window loads and shows the settings.
LEMMA OnPrepareStep ==
    ASSUME SettingsInv, NEW w \in 1..Len(windows), OnPrepare(w)
    PROVE  SettingsInv'
  <1> DEFINE old == windows[w]
             loaded == [f \in Fields |-> Load(f)]
             shown == [f \in Fields |-> Show(f, Load(f), old.devices)]
             r == [old EXCEPT !.st = "ready", !.loaded = loaded,
                              !.shown = shown, !.stale = {}]
  <1>1. old \in WindowRecords BY IdleFits DEF OnPrepare
  <1>2. Update(w, r) BY DEF OnPrepare
  <1>3. old.devices \in DeviceLists BY <1>1 DEF WindowRecords
  <1>4. \A f \in Fields : Load(f) \in Values(f) /\ Taken(f, Load(f)) = Load(f)
    BY LoadFacts DEF SettingsInv, WindowTypes
  <1>5. \A f \in Fields : shown[f] \in Values(f) BY <1>3, <1>4, ShowFacts
  <1>6. loaded \in Content /\ shown \in Content BY <1>4, <1>5 DEF Content, Values
  <1>7. /\ \A f \in Fields : loaded[f] = Load(f)
        /\ \A f \in Fields : shown[f] = Show(f, loaded[f], old.devices)
    OBVIOUS
  <1> HIDE DEF loaded, shown
  <1>8. /\ r \in WindowRecords /\ r.st = "ready" /\ r.loaded = loaded /\ r.shown = shown
        /\ r.devices = old.devices /\ r.playing = old.playing
    BY <1>1, <1>6 DEF WindowRecords
  <1> HIDE DEF r
  <1>9. Consistent(r) BY <1>4, <1>5, <1>7, <1>8 DEF Consistent
  <1>10. Fits(r) BY <1>7, <1>8 DEF Fits
  <1>11. TestOwned' BY <1>2, <1>8, TestsStep DEF OnPrepare
  <1>12. testing' \in SUBSET Tests /\ changes' \in 0..MaxChanges
    BY DEF OnPrepare, SettingsInv, WindowTypes
  <1> QED BY <1>2, <1>8, <1>9, <1>10, <1>11, <1>12, UpdateStep DEF OnPrepare

\* The user changes a control.
LEMMA EditStep ==
    ASSUME SettingsInv, NEW w \in 1..Len(windows), NEW f \in Fields, Edit(w, f)
    PROVE  SettingsInv'
  <1> DEFINE old == windows[w]
  <1>1. old \in WindowRecords /\ Consistent(old) /\ Fits(old) BY IdleFits DEF Edit
  <1>2. PICK x \in Enterable(f, old.devices) :
           Update(w, [old EXCEPT !.shown[f] = x, !.touched = @ \cup {f}])
    BY DEF Edit
  <1>3. x \in Values(f)
    <2>1. old.devices \in DeviceLists BY <1>1 DEF WindowRecords
    <2>2. CASE f \in Combos
      <3>0. f \notin Sliders /\ f # "LogPath" BY <2>2 DEF Combos, Sliders
      <3>1. x \in Range(old.devices) BY <1>2, <2>2, <3>0 DEF Enterable
      <3>2. f \in Texts BY <2>2, Constants
      <3> QED BY <2>1, <3>1, <3>2, Constants DEF Values
    <2>3. CASE f \in Sliders
      <3>1. f \notin Combos /\ f \notin Texts /\ f # "LogPath"
        BY <2>3 DEF Sliders, Combos, Texts
      <3>2. x \in Numbers BY <1>2, <2>3, <3>1 DEF Enterable
      <3> QED BY <3>1, <3>2, Constants DEF Values
    <2>4. CASE f = "LogPath"
      <3>1. f \in Texts /\ f \notin Combos /\ f \notin Sliders
        BY <2>4 DEF Texts, Combos, Sliders
      <3>2. x \in Strings BY <1>2, <2>4, <3>1 DEF Enterable
      <3> QED BY <3>1, <3>2, Constants DEF Values
    <2>5. CASE f \notin Combos \cup Sliders /\ f # "LogPath"
      <3>1. f \notin Texts BY <2>5 DEF Texts
      <3>2. x \in Numbers BY <1>2, <2>5 DEF Enterable
      <3> QED BY <3>1, <3>2, Constants DEF Values
    <2> QED BY <2>2, <2>3, <2>4, <2>5
  <1> DEFINE shown == [old.shown EXCEPT ![f] = x]
             r == [old EXCEPT !.shown = shown, !.touched = @ \cup {f}]
  <1>4. Update(w, r) BY <1>1, <1>2 DEF WindowRecords
  <1>5. old.shown \in Content BY <1>1 DEF WindowRecords
  <1>6. shown \in Content /\ \A g \in Fields : shown[g] = IF g = f THEN x ELSE old.shown[g]
    BY <1>3, <1>5 DEF Content, Values
  <1> HIDE DEF shown
  <1>7. /\ r \in WindowRecords /\ r.st = old.st /\ r.loaded = old.loaded
        /\ r.shown = shown /\ r.devices = old.devices /\ r.playing = old.playing
        /\ r.touched = old.touched \cup {f} /\ r.stale = old.stale
    BY <1>1, <1>6 DEF WindowRecords
  <1>8. old.st = "ready" BY DEF Edit
  <1> HIDE DEF r
  <1>9. Consistent(r) BY <1>1, <1>3, <1>6, <1>7 DEF Consistent
  <1>10. Fits(r) BY <1>1, <1>7, <1>8 DEF Fits
  <1>11. TestOwned' BY <1>4, <1>7, TestsStep DEF Edit
  <1>12. testing' \in SUBSET Tests /\ changes' \in 0..MaxChanges
    BY SettingsAssumption DEF Edit, SettingsInv, WindowTypes
  <1> QED BY <1>4, <1>7, <1>8, <1>9, <1>10, <1>11, <1>12, UpdateStep DEF Edit

\* The user starts or stops a device test.
LEMMA PlayPauseStep ==
    ASSUME SettingsInv, NEW w \in 1..Len(windows), NEW k \in Tests,
           Play(w, k) \/ Pause(w, k)
    PROVE  SettingsInv'
  <1> DEFINE old == windows[w]
  <1>0. Idle /\ old.st = "ready" /\ UNCHANGED <<hkcu, hku, saver, next, changes>>
    BY DEF Play, Pause
  <1>1. old \in WindowRecords /\ Consistent(old) /\ Fits(old) BY <1>0, IdleFits
  <1>2. ASSUME NEW P \in SUBSET Tests, Update(w, [old EXCEPT !.playing = P]),
               testing' \in SUBSET Tests, testing' \subseteq testing \cup P,
               old.playing \cap testing' \subseteq P
        PROVE  SettingsInv'
    <2> DEFINE r == [old EXCEPT !.playing = P]
    <2>1. /\ r \in WindowRecords /\ r.st = old.st /\ r.loaded = old.loaded
          /\ r.shown = old.shown /\ r.devices = old.devices /\ r.playing = P
          /\ r.touched = old.touched /\ r.stale = old.stale
      BY <1>1 DEF WindowRecords
    <2>2. Update(w, r) BY <1>2
    <2> HIDE DEF r
    <2>3. Consistent(r) BY <1>1, <2>1 DEF Consistent
    <2>4. Fits(r) BY <1>1, <2>1 DEF Fits
    <2>5. TestOwned' BY <1>2, <2>1, <2>2, TestsStep
    <2>6. changes' \in 0..MaxChanges BY <1>0 DEF SettingsInv, WindowTypes
    <2> QED BY <1>0, <1>2, <2>1, <2>2, <2>3, <2>4, <2>5, <2>6, UpdateStep
  <1>3. old.playing \in SUBSET Tests /\ testing \in SUBSET Tests
    BY <1>1 DEF WindowRecords, SettingsInv, WindowTypes
  <1>4. CASE Play(w, k)
    <2> DEFINE P == old.playing \cup {k}
    <2>1. Update(w, [old EXCEPT !.playing = P]) BY <1>1, <1>4 DEF Play, WindowRecords
    <2>2. testing' = testing \cup {k} BY <1>4 DEF Play
    <2> QED BY <1>2, <1>3, <2>1, <2>2
  <1>5. CASE Pause(w, k)
    <2> DEFINE P == old.playing \ {k}
    <2>1. Update(w, [old EXCEPT !.playing = P]) BY <1>1, <1>5 DEF Pause, WindowRecords
    <2>2. testing' = testing \ {k} BY <1>5 DEF Pause
    <2> QED BY <1>2, <1>3, <2>1, <2>2
  <1> QED BY <1>4, <1>5

\* A window is destroyed and stops all tests.
LEMMA ClosedStep ==
    ASSUME SettingsInv, NEW w \in 1..Len(windows), Closed(w)
    PROVE  SettingsInv'
  <1> DEFINE r == Gone(windows[w])
             s == [windows EXCEPT ![w] = r]
             G == {0} \cup {i \in DOMAIN s : s[i].st # "closed"}
             n == Max(G)
  <1>1. windows[w] \in WindowRecords BY IdleFits DEF Closed
  <1>2. /\ r \in WindowRecords /\ Consistent(r) /\ r.st = "closed"
        /\ r.playing = windows[w].playing
    BY <1>1, GoneFacts
  <1>3. windows \in Seq(WindowRecords) BY DEF SettingsInv, WindowTypes
  <1>4. windows' = Unwind(s) BY DEF Closed
  <1> HIDE DEF r
  <1>5. /\ s \in Seq(WindowRecords) /\ Len(s) = Len(windows)
        /\ \A i \in 1..Len(windows) : s[i] = IF i = w THEN r ELSE windows[i]
    BY <1>2, <1>3, ExceptSeq
  <1> HIDE DEF s
  <1>6. Len(s) \in Nat /\ G \in SUBSET (0..Len(s)) /\ G # {} BY <1>5
  <1>7. n \in G BY <1>6, MaxOfBounded
  <1>8. windows' = SubSeq(s, 1, n) BY <1>4 DEF Unwind
  <1> HIDE DEF n
  <1>9. n \in 0..Len(s) BY <1>6, <1>7
  <1>10. /\ windows' \in Seq(WindowRecords) /\ Len(windows') = n
         /\ \A i \in 1..n : windows'[i] = s[i]
    BY <1>5, <1>8, <1>9, PrefixProperties
  <1>11. windows' # <<>> => Last(windows').st # "closed"
    <2> HAVE windows' # <<>>
    <2>1. n # 0 BY <1>10, EmptySeq
    <2>2. s[n].st # "closed" BY <2>1, <1>7
    <2> QED BY <2>1, <2>2, <1>9, <1>10 DEF Last
  <1>12. \A i \in 1..Len(windows') : Consistent(windows'[i]) /\ Fits(windows'[i])
    <2> TAKE i \in 1..Len(windows')
    <2>1. i \in 1..Len(windows) /\ windows'[i] = IF i = w THEN r ELSE windows[i]
      BY <1>5, <1>9, <1>10
    <2>2. CASE i = w BY <1>2, <2>1, <2>2 DEF Fits
    <2>3. CASE i # w BY <2>1, <2>3, IdleFits DEF Closed
    <2> QED BY <2>2, <2>3
  <1>13. TestOwned'
    <2>1. CASE n < Len(windows)
      <3>1. testing' = {} BY <1>10, <2>1 DEF Closed
      <3> QED BY <3>1 DEF TestOwned
    <2>2. CASE ~(n < Len(windows))
      <3>1. testing' = testing /\ n = Len(windows) BY <1>5, <1>9, <1>10, <2>2 DEF Closed
      <3>2. DOMAIN windows' = 1..n /\ DOMAIN windows = 1..n BY <1>3, <1>10, <3>1
      <3>3. \A i \in 1..n : windows'[i].playing = windows[i].playing
        BY <1>2, <1>5, <1>10, <3>1
      <3> QED BY <3>1, <3>2, <3>3 DEF TestOwned, SettingsInv
    <2> QED BY <2>1, <2>2
  <1>14. testing' \in SUBSET Tests /\ changes' \in 0..MaxChanges
    BY DEF Closed, SettingsInv, WindowTypes
  <1> QED BY <1>10, <1>11, <1>12, <1>13, <1>14, WindowStep DEF Closed

\* The program ends and starts again.
LEMMA RestartStep ==
    ASSUME SettingsInv, Restart
    PROVE  SettingsInv'
  <1>1. windows' \in Seq(WindowRecords) /\ Len(windows') = 0 /\ windows' = <<>>
    BY EmptySeq DEF Restart
  <1>2. TestOwned' BY DEF Restart, TestOwned
  <1>3. testing' \in SUBSET Tests /\ changes' \in 0..MaxChanges
    BY DEF Restart, SettingsInv, WindowTypes
  <1> QED BY <1>1, <1>2, <1>3, WindowStep DEF Restart

\* OnExit begins: no setting is done yet.
LEMMA OnExitStep ==
    ASSUME SettingsInv, NEW w \in 1..Len(windows), OnExit(w)
    PROVE  SettingsInv'
  <1>1. windows[w].st = "ready" /\ saver = 0 /\ saver' = w /\ next = 1
    BY DEF OnExit, Idle, SettingsInv, SaverInv
  <1>2. UNCHANGED <<hkcu, hku, windows, next, testing, changes>> BY DEF OnExit
  <1>3. WindowTypes' BY <1>1, <1>2 DEF SettingsInv, WindowTypes
  <1>4. SaverInv' BY <1>1, <1>2 DEF SaverInv
  <1>5. TestOwned' BY <1>2 DEF SettingsInv, TestOwned
  <1>6. ASSUME NEW i \in 1..Len(windows) PROVE Consistent(windows'[i]) /\ InSync(i)'
    <2>1. Consistent(windows[i]) /\ Fits(windows[i]) BY IdleFits DEF OnExit
    <2>2. \A f : Load(f)' = Load(f) BY <1>2, LoadSame
    <2>3. Done' = {} BY <1>1, <1>2 DEF Done
    <2> QED BY <1>2, <2>1, <2>2, <2>3 DEF InSync, Fits
  <1> QED BY <1>2, <1>3, <1>4, <1>5, <1>6 DEF SettingsInv

-----------------------------------------------------------------------------
(* Steps that store a setting.                                             *)

\* Nothing but the state and the history of a window differs.
SameBut(r, old) ==
    /\ r \in WindowRecords
    /\ r.devices = old.devices /\ r.playing = old.playing
    /\ r.loaded = old.loaded /\ r.shown = old.shown /\ r.touched = old.touched

\* What storing f, by this window or by others, notes in a window.
Noted(r, old, own, f) ==
    /\ SameBut(r, old) /\ r.st = old.st
    /\ old.st \in {"ready", "saved"} =>
          r.stale = IF own THEN old.stale \ {f} ELSE old.stale \cup {f}

\* What a store does to the history of each window.
LEMMA UnseenFacts ==
    ASSUME windows \in Seq(WindowRecords), NEW w, NEW f \in Fields
    PROVE  /\ Unseen(w, f) \in Seq(WindowRecords)
           /\ Len(Unseen(w, f)) = Len(windows)
           /\ \A i \in 1..Len(windows) :
                 Noted(Unseen(w, f)[i], windows[i], i = w, f)
  <1>1. DOMAIN windows = 1..Len(windows) /\ Len(windows) \in Nat OBVIOUS
  <1>2. ASSUME NEW i \in 1..Len(windows)
        PROVE  Noted(Unseen(w, f)[i], windows[i], i = w, f)
    <2> DEFINE old == windows[i]
               T == IF i = w THEN old.stale \ {f} ELSE old.stale \cup {f}
    <2>1. old \in WindowRecords OBVIOUS
    <2>2. CASE old.st \notin {"ready", "saved"}
      <3>1. Unseen(w, f)[i] = old BY <1>1, <2>2 DEF Unseen
      <3> QED BY <2>1, <2>2, <3>1 DEF SameBut, Noted
    <2>3. CASE old.st \in {"ready", "saved"}
      <3>1. Unseen(w, f)[i] = [old EXCEPT !.stale = T]
        BY <1>1, <2>1, <2>3 DEF Unseen, WindowRecords
      <3>2. T \in SUBSET Fields BY <2>1 DEF WindowRecords
      <3> HIDE DEF T
      <3>3. LET r == [old EXCEPT !.stale = T] IN
            SameBut(r, old) /\ r.st = old.st /\ r.stale = T
        BY <2>1, <3>2 DEF WindowRecords, SameBut
      <3> QED BY <3>1, <3>3 DEF T, Noted
    <2> QED BY <2>2, <2>3
  <1>3. Unseen(w, f) \in [1..Len(windows) -> WindowRecords]
    BY <1>1, <1>2 DEF Unseen, SameBut, Noted
  <1>4. Unseen(w, f) \in Seq(WindowRecords) /\ Len(Unseen(w, f)) = Len(windows)
    BY <1>1, <1>3, FunctionIsSeq
  <1> QED BY <1>2, <1>4

\* A command of a page: the windows that have loaded f are stale in it.
LEMMA SetRegKeyStep ==
    ASSUME SettingsInv, NEW f \in Fields, NEW x \in Registered, SetRegKey(f, x)
    PROVE  SettingsInv'
  <1>1. /\ windows \in Seq(WindowRecords) /\ hkcu \in [Fields -> Registered]
        /\ saver \in 0..Len(windows)
        /\ windows # <<>> => Last(windows).st # "closed"
    BY DEF SettingsInv, WindowTypes
  <1>2. /\ windows' = Unseen(0, f) /\ hkcu' = [hkcu EXCEPT ![f] = x]
        /\ UNCHANGED <<hku, saver, next, testing>>
    BY DEF SetRegKey
  <1>3. windows' \in Seq(WindowRecords) /\ Len(windows') = Len(windows)
    BY <1>1, <1>2, UnseenFacts
  <1>4. ASSUME NEW i \in 1..Len(windows)
        PROVE  /\ SameBut(windows'[i], windows[i]) /\ windows'[i].st = windows[i].st
               /\ windows[i].st \in {"ready", "saved"} =>
                     windows'[i].stale = windows[i].stale \cup {f}
    <2>1. i # 0 OBVIOUS
    <2>2. Noted(windows'[i], windows[i], i = 0, f) BY <1>1, <1>2, UnseenFacts
    <2> QED BY <2>1, <2>2 DEF Noted
  <1>5. WindowTypes'
    <2>1. windows' # <<>> => Last(windows').st # "closed"
      <3> HAVE windows' # <<>>
      <3>1. Len(windows) \in 1..Len(windows) /\ windows # <<>> BY <1>1, <1>3
      <3> QED BY <1>1, <1>3, <1>4, <3>1 DEF Last
    <2>2. changes' \in 0..MaxChanges
      BY SettingsAssumption DEF SetRegKey, SettingsInv, WindowTypes
    <2>3. hkcu' \in [Fields -> Registered] BY <1>1, <1>2
    <2> QED BY <1>2, <1>3, <2>1, <2>2, <2>3 DEF WindowTypes, SettingsInv
  <1>6. SaverInv' BY <1>1, <1>2, <1>4 DEF SettingsInv, SaverInv
  <1>7. TestOwned'
    <2>1. DOMAIN windows = 1..Len(windows) /\ DOMAIN windows' = 1..Len(windows)
      BY <1>1, <1>3
    <2> QED BY <1>2, <1>4, <2>1 DEF SettingsInv, TestOwned, SameBut
  <1>8. ASSUME NEW i \in 1..Len(windows) PROVE Consistent(windows'[i])
    BY <1>4 DEF SettingsInv, Consistent, SameBut
  <1>9. ASSUME NEW i \in 1..Len(windows) PROVE InSync(i)'
    <2> SUFFICES ASSUME windows'[i].st \in {"ready", "saved"},
                        NEW g \in Fields, g \notin windows'[i].stale
                 PROVE  Load(g)' = IF windows'[i].st = "saved" \/ (i = saver' /\ g \in Done')
                                   THEN Taken(g, windows'[i].shown[g])
                                   ELSE windows'[i].loaded[g]
      BY DEF InSync
    <2>1. g # f /\ g \notin windows[i].stale BY <1>4
    <2>2. Load(g)' = Load(g) BY <1>1, <1>2, <2>1, LoadSame
    <2>3. Done' = Done /\ saver' = saver BY <1>2 DEF Done
    <2>4. Load(g) = IF windows[i].st = "saved" \/ (i = saver /\ g \in Done)
                    THEN Taken(g, windows[i].shown[g]) ELSE windows[i].loaded[g]
      BY <1>4, <2>1 DEF SettingsInv, InSync
    <2> QED BY <1>4, <2>2, <2>3, <2>4 DEF SameBut
  <1> QED BY <1>3, <1>5, <1>6, <1>7, <1>8, <1>9 DEF SettingsInv

\* A command of a page stores a value.
LEMMA CommandsStep ==
    ASSUME SettingsInv, Commands
    PROVE  SettingsInv'
  <1>1. \A n \in Int : Dword(n) \in Registered BY Constants DEF Dword, Registered
  <1>2. \A x \in Strings : Sz(x) \in Registered BY Constants DEF Sz, Registered
  <1>3. CASE SelectAudioDevice
    <2>1. PICK f \in Combos, n \in Numbers : SetRegKey(f, Dword(n))
      BY <1>3 DEF SelectAudioDevice
    <2>2. f \in Fields /\ Dword(n) \in Registered BY <1>1, <2>1, Constants DEF SetRegKey
    <2> QED BY <2>1, <2>2, SetRegKeyStep
  <1>4. CASE SetAudioPlayoutVolume
    <2>1. PICK n \in Numbers \cup {0} : SetRegKey("SpeakerVolume", Dword(n))
      BY <1>4 DEF SetAudioPlayoutVolume
    <2>2. "SpeakerVolume" \in Fields /\ Dword(n) \in Registered
      BY <1>1, <2>1, Constants DEF SetRegKey
    <2> QED BY <2>1, <2>2, SetRegKeyStep
  <1>5. CASE SetRegConfig
    <2>1. PICK f \in Fields, x \in StoredByPages : SetRegKey(f, x)
      BY <1>5 DEF SetRegConfig
    <2>2. x \in Registered BY <1>1, <1>2, <2>1, Constants DEF StoredByPages
    <2> QED BY <2>1, <2>2, SetRegKeyStep
  <1> QED BY <1>3, <1>4, <1>5 DEF Commands

\* OnExit at one setting.  Before it, a setting that is not stale loads as it
\* did when the window loaded it; after it, as the control shows it.
LEMMA SaveFieldStep ==
    ASSUME SettingsInv, SaveField
    PROVE  SettingsInv'
  <1>1. /\ windows \in Seq(WindowRecords) /\ hkcu \in [Fields -> Registered]
        /\ saver \in 1..Len(windows) /\ next \in 1..Len(Order)
        /\ windows # <<>> => Last(windows).st # "closed"
    BY DEF SettingsInv, WindowTypes, SaveField, Idle
  <1>2. PICK f \in Fields : f = Order[next] BY <1>1, OrderFacts
  <1> DEFINE w    == windows[saver]
             v    == Taken(f, w.shown[f])
             last == next = Len(Order)
             save == v # w.loaded[f]
             wins == IF save THEN Unseen(saver, f) ELSE windows
  <1>3. /\ hkcu' = IF save THEN [hkcu EXCEPT ![f] = Stored(f, v)] ELSE hkcu
        /\ windows' = IF last THEN [wins EXCEPT ![saver].st = "saved"] ELSE wins
        /\ next' = IF last THEN 1 ELSE next + 1
        /\ saver' = IF last THEN 0 ELSE saver
        /\ UNCHANGED <<hku, testing, changes>>
    BY <1>2, Zenon DEF SaveField
  <1>0. /\ w = windows[saver] /\ v = Taken(f, w.shown[f])
        /\ save <=> v # w.loaded[f]
        /\ last <=> next = Len(Order)
    OBVIOUS
  <1> HIDE DEF w, v, save, last, wins
  <1>4. w \in WindowRecords /\ w.st = "ready" /\ Consistent(w) /\ w.shown[f] \in Values(f)
    BY <1>0, <1>1, <1>2 DEF SettingsInv, SaverInv, Consistent
  <1>5. v \in Values(f) /\ Stored(f, v) \in Registered
    BY <1>0, <1>2, <1>4, TakenFacts, StoredFacts
  <1>6. wins \in Seq(WindowRecords) /\ Len(wins) = Len(windows)
    BY <1>1, <1>2, UnseenFacts DEF wins
  <1>7. ASSUME NEW i \in 1..Len(windows)
        PROVE  /\ SameBut(wins[i], windows[i]) /\ wins[i].st = windows[i].st
               /\ windows[i].st \in {"ready", "saved"} =>
                     wins[i].stale = IF ~save THEN windows[i].stale
                                     ELSE IF i = saver THEN windows[i].stale \ {f}
                                     ELSE windows[i].stale \cup {f}
    <2>1. CASE save
      <3>1. wins = Unseen(saver, f) BY <2>1 DEF wins
      <3>2. Noted(wins[i], windows[i], i = saver, f) BY <1>1, <1>2, <3>1, UnseenFacts
      <3> QED BY <2>1, <3>2 DEF Noted
    <2>2. CASE ~save BY <1>1, <2>2 DEF wins, SameBut
    <2> QED BY <2>1, <2>2
  <1>8. /\ windows' \in Seq(WindowRecords) /\ Len(windows') = Len(windows)
        /\ \A i \in 1..Len(windows) :
              windows'[i] = IF last /\ i = saver THEN [wins[i] EXCEPT !.st = "saved"]
                            ELSE wins[i]
    <2>1. [wins[saver] EXCEPT !.st = "saved"] \in WindowRecords
      <3>1. wins[saver] \in WindowRecords BY <1>1, <1>7 DEF SameBut
      <3> QED BY <3>1 DEF WindowRecords
    <2>2. CASE last
      <3>1. windows' = [wins EXCEPT ![saver] = [wins[saver] EXCEPT !.st = "saved"]]
        BY <1>3, <2>2
      <3> QED BY <1>1, <1>6, <2>1, <2>2, <3>1, ExceptSeq
    <2>3. CASE ~last BY <1>3, <1>6, <2>3
    <2> QED BY <2>2, <2>3
  <1>9. ASSUME NEW i \in 1..Len(windows)
        PROVE  /\ SameBut(windows'[i], windows[i]) /\ windows'[i].stale = wins[i].stale
               /\ windows'[i].st = IF last /\ i = saver THEN "saved" ELSE windows[i].st
    <2>1. wins[i] \in WindowRecords /\ SameBut(wins[i], windows[i])
      BY <1>7 DEF SameBut
    <2>2. LET r == [wins[i] EXCEPT !.st = "saved"] IN
          SameBut(r, windows[i]) /\ r.stale = wins[i].stale /\ r.st = "saved"
      BY <2>1 DEF WindowRecords, SameBut
    <2>3. CASE last /\ i = saver BY <1>8, <2>2, <2>3
    <2>4. CASE ~(last /\ i = saver) BY <1>7, <1>8, <2>4
    <2> QED BY <2>3, <2>4
  <1>10. WindowTypes'
    <2>1. windows' # <<>> => Last(windows').st # "closed"
      <3> HAVE windows' # <<>>
      <3>1. Len(windows) \in 1..Len(windows) /\ windows # <<>> BY <1>1, <1>8
      <3> QED BY <1>1, <1>8, <1>9, <3>1 DEF Last
    <2>2. hkcu' \in [Fields -> Registered] BY <1>1, <1>2, <1>3, <1>5
    <2>3. next' \in 1..Len(Order) /\ saver' \in 0..Len(windows')
      BY <1>0, <1>1, <1>3, <1>8, OrderFacts
    <2> QED BY <1>3, <1>8, <2>1, <2>2, <2>3 DEF WindowTypes, SettingsInv
  <1>11. SaverInv' BY <1>0, <1>1, <1>3, <1>4, <1>9 DEF SaverInv
  <1>12. TestOwned'
    <2>1. DOMAIN windows = 1..Len(windows) /\ DOMAIN windows' = 1..Len(windows)
      BY <1>1, <1>8
    <2> QED BY <1>3, <1>9, <2>1 DEF SettingsInv, TestOwned, SameBut
  <1>13. ASSUME NEW i \in 1..Len(windows) PROVE Consistent(windows'[i])
    BY <1>0, <1>4, <1>9 DEF SettingsInv, Consistent, SameBut
  <1>14. ASSUME NEW i \in 1..Len(windows) PROVE InSync(i)'
    <2> SUFFICES ASSUME windows'[i].st \in {"ready", "saved"},
                        NEW g \in Fields, g \notin windows'[i].stale
                 PROVE  Load(g)' = IF windows'[i].st = "saved" \/ (i = saver' /\ g \in Done')
                                   THEN Taken(g, windows'[i].shown[g])
                                   ELSE windows'[i].loaded[g]
      BY DEF InSync
    <2>1. windows[i].st \in {"ready", "saved"} BY <1>0, <1>4, <1>9
    <2>2. CASE i # saver
      <3>1. g \notin windows[i].stale /\ (save => g # f) BY <1>7, <1>9, <2>1, <2>2
      <3>2. Load(g)' = Load(g) BY <1>1, <1>3, <3>1, LoadSame
      <3>3. Load(g) = IF windows[i].st = "saved" THEN Taken(g, windows[i].shown[g])
                      ELSE windows[i].loaded[g]
        BY <2>1, <2>2, <3>1 DEF SettingsInv, InSync
      <3>4. i # saver' BY <1>3, <2>2
      <3> QED BY <1>9, <2>2, <3>2, <3>3, <3>4 DEF SameBut
    <2>3. CASE i = saver
      <3>1. g \notin w.stale \/ (save /\ g = f) BY <1>0, <1>4, <1>7, <1>9, <2>3
      <3>2. g \notin w.stale =>
              Load(g) = IF g \in Done THEN Taken(g, w.shown[g]) ELSE w.loaded[g]
        BY <1>0, <1>1, <1>4 DEF SettingsInv, InSync
      <3>3. f \notin Done
        <4>1. \A j \in 1..(next - 1) : j \in 1..Len(Order) /\ j # next BY <1>1
        <4>2. \A j \in 1..(next - 1) : Order[j] # f BY <1>1, <1>2, <4>1, OrderFacts
        <4> QED BY <4>2 DEF Done
      <3>4. CASE g = f
        <4>1. Load(f)' = v
          <5>1. CASE save
            <6>1. hkcu'[f] = Stored(f, v) BY <1>1, <1>2, <1>3, <5>1
            <6> QED BY <1>0, <1>2, <1>4, <6>1, StoredFacts
          <5>2. CASE ~save
            <6>1. hkcu'[f] = hkcu[f] /\ hku'[f] = hku[f] BY <1>3, <5>2
            <6>2. Load(f)' = Load(f) BY <6>1, LoadSame
            <6> QED BY <1>0, <3>1, <3>2, <3>3, <3>4, <5>2, <6>2
          <5> QED BY <5>1, <5>2
        <4>2. ~last => f \in Done' BY <1>1, <1>2, <1>3 DEF Done
        <4>3. windows'[i].shown = w.shown BY <1>0, <1>9, <2>3 DEF SameBut
        <4>4. windows'[i].st = "saved" \/ (i = saver' /\ f \in Done')
          BY <1>3, <1>9, <2>3, <4>2
        <4> QED BY <1>0, <3>4, <4>1, <4>3, <4>4
      <3>5. CASE g # f
        <4>1. Load(g)' = Load(g) BY <1>1, <1>3, <3>5, LoadSame
        <4>2. CASE last
          <5>1. g \in Done
            <6>1. PICK j \in 1..Len(Order) : Order[j] = g BY OrderFacts
            <6>2. j \in 1..(next - 1) BY <1>0, <1>2, <3>5, <4>2, <6>1, OrderFacts
            <6> QED BY <6>1, <6>2 DEF Done
          <5> QED BY <1>0, <1>9, <2>3, <3>1, <3>2, <3>5, <4>1, <4>2, <5>1 DEF SameBut
        <4>3. CASE ~last
          <5>1. g \in Done' <=> g \in Done
            <6>1. next' = next + 1 BY <1>3, <4>3
            <6> QED BY <1>1, <1>2, <3>5, <6>1 DEF Done
          <5>2. windows'[i].st = "ready" /\ saver' = saver BY <1>0, <1>3, <1>4, <1>9, <2>3, <4>3
          <5> QED BY <1>0, <1>9, <2>3, <3>1, <3>2, <3>5, <4>1, <5>1, <5>2 DEF SameBut
        <4> QED BY <4>2, <4>3
      <3> QED BY <3>4, <3>5
    <2> QED BY <2>2, <2>3
  <1> QED BY <1>8, <1>10, <1>11, <1>12, <1>13, <1>14 DEF SettingsInv

-----------------------------------------------------------------------------
(* The theorems.                                                           *)

\* The invariant holds at the start ...
LEMMA SettingsInit == Init => SettingsInv
  <1> SUFFICES ASSUME Init PROVE SettingsInv OBVIOUS
  <1>1. None \in Registered BY Constants DEF None, Registered
  <1>2. hkcu \in [Fields -> Registered] /\ hku \in [Fields -> Registered]
    BY <1>1, SettingsAssumption DEF Init
  <1>3. windows \in Seq(WindowRecords) /\ Len(windows) = 0 /\ windows = <<>>
    BY EmptySeq DEF Init
  <1>4. WindowTypes BY <1>2, <1>3, OrderFacts, SettingsAssumption DEF WindowTypes, Init
  <1>5. SaverInv /\ TestOwned BY DEF Init, SaverInv, TestOwned
  <1> QED BY <1>3, <1>4, <1>5 DEF SettingsInv

\* ... and after every step.
LEMMA SettingsNext == SettingsInv /\ [Next]_vars => SettingsInv'
  <1> SUFFICES ASSUME SettingsInv, [Next]_vars PROVE SettingsInv' OBVIOUS
  <1>1. CASE UNCHANGED vars
    <2>1. \A f : Load(f)' = Load(f) BY <1>1, LoadSame DEF vars
    <2>2. Done' = Done BY <1>1 DEF vars, Done
    <2>3. \A w : InSync(w)' <=> InSync(w) BY <1>1, <2>1, <2>2 DEF vars, InSync
    <2> QED BY <1>1, <2>3 DEF vars, SettingsInv, WindowTypes, SaverInv, TestOwned
  <1>2. CASE SettingsBtn \/ SaveField \/ Restart \/ Commands
    BY <1>2, SettingsBtnStep, SaveFieldStep, RestartStep, CommandsStep
  <1>3. CASE \E w \in DOMAIN windows : Window(w)
    <2>1. PICK w \in DOMAIN windows : Window(w) BY <1>3
    <2>2. w \in 1..Len(windows) BY DEF SettingsInv, WindowTypes
    <2> QED BY <2>1, <2>2, OnPrepareStep, OnExitStep, ClosedStep, EditStep,
            PlayPauseStep DEF Window
  <1> QED BY <1>1, <1>2, <1>3 DEF Next

\* Windows, registry and OnExit agree at all times, whatever pages store in
\* between.
THEOREM SettingsInvariant == Spec => []SettingsInv
  BY SettingsInit, SettingsNext, PTL DEF Spec

\* Type correctness: whatever types pages store under whatever names, each
\* window keeps and shows values of the type its controls have, and OnExit is
\* always at a setting of a window that is there.
THEOREM SettingsTypes == Spec => []TypeOK
  <1>1. SettingsInv => TypeOK
    <2> SUFFICES ASSUME SettingsInv PROVE TypeOK OBVIOUS
    <2>1. \A f \in Fields : \A r \in {hkcu[f], hku[f]} :
             r.type \in {"none", "dword", "sz"} /\ r.n \in Int /\ r.s \in Strs
      BY DEF SettingsInv, WindowTypes, Registered
    <2>2. DOMAIN windows = 1..Len(windows) BY DEF SettingsInv, WindowTypes
    <2>3. ASSUME NEW w \in DOMAIN windows
          PROVE  /\ windows[w].st \in {"created", "ready", "saved", "closed"}
                 /\ windows[w].devices \in DeviceLists
                 /\ windows[w].playing \subseteq Tests
                 /\ windows[w].touched \subseteq Fields
                 /\ windows[w].stale \subseteq Fields
                 /\ \A f \in Fields : /\ windows[w].loaded[f] \in Values(f)
                                      /\ windows[w].shown[f] \in Values(f)
      <3>1. windows[w] \in WindowRecords /\ Consistent(windows[w])
        BY <2>2 DEF SettingsInv, WindowTypes
      <3> QED BY <3>1 DEF WindowRecords, Consistent
    <2> QED BY <2>1, <2>3 DEF TypeOK, SettingsInv, WindowTypes
  <1> QED BY <1>1, SettingsInvariant, PTL

\* What a window showed when it was left is what the next one loads, unless
\* somebody else stored the setting in between.
THEOREM SavedAsShown == Spec => []SavedIsShown
  <1>1. SettingsInv => SavedIsShown
    <2>1. SettingsInv => DOMAIN windows = 1..Len(windows) BY DEF SettingsInv, WindowTypes
    <2> QED BY <2>1 DEF SettingsInv, SavedIsShown, InSync
  <1> QED BY <1>1, SettingsInvariant, PTL

\* No device test outlives the settings objects that show it as running.
THEOREM TestsAreOwned == Spec => []TestOwned
  <1>1. SettingsInv => TestOwned BY DEF SettingsInv
  <1> QED BY <1>1, SettingsInvariant, PTL

\* OnExit stores a setting its user did not touch only if its control could
\* not show what was loaded.
THEOREM UntouchedIsKept == Spec => UntouchedKept
  <1> DEFINE A == \A f \in Fields :
                    (saver # 0 /\ f = Order[next] /\ <<saver, next>>' # <<saver, next>>) =>
                       LET w == windows[saver] IN
                       \/ hkcu'[f] = hkcu[f]
                       \/ f \in w.touched
                       \/ ~Showable(f, w.loaded[f], w.devices)
  <1>1. SettingsInv /\ [Next]_vars => [A]_vars
    <2> SUFFICES ASSUME SettingsInv, [Next]_vars, NEW f \in Fields, saver # 0,
                        f = Order[next], <<saver, next>>' # <<saver, next>>,
                        f \notin windows[saver].touched,
                        Showable(f, windows[saver].loaded[f], windows[saver].devices)
                 PROVE  hkcu'[f] = hkcu[f]
      OBVIOUS
    <2>1. SaveField
      <3>1. ~UNCHANGED vars BY DEF vars
      <3>2. ~Idle BY DEF Idle
      <3>3. ~Commands
        BY DEF Commands, SelectAudioDevice, SetAudioPlayoutVolume, SetRegConfig, SetRegKey
      <3>4. ~SettingsBtn /\ ~Restart BY <3>2 DEF SettingsBtn, Restart
      <3>5. ~\E w \in DOMAIN windows : Window(w)
        BY <3>2 DEF Window, OnPrepare, OnExit, Closed, Edit, Play, Pause
      <3> QED BY <3>1, <3>3, <3>4, <3>5 DEF Next
    <2> DEFINE w == windows[saver]
    <2>2. w.st = "ready" /\ Consistent(w)
      BY DEF SettingsInv, SaverInv, WindowTypes
    <2>3. w.shown[f] = w.loaded[f] BY <2>2 DEF Consistent, Showable
    <2>4. Taken(f, w.shown[f]) = w.loaded[f] BY <2>2, <2>3 DEF Consistent
    <2> QED BY <2>1, <2>4, Zenon DEF SaveField
  <1> QED BY <1>1, SettingsInvariant, PTL DEF Spec, UntouchedKept
=============================================================================
