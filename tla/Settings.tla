------------------------------ MODULE Settings ------------------------------
(***************************************************************************)
(* The program's settings: registry values that settings windows and       *)
(* commands of pages write at the same time.                               *)
(*                                                                         *)
(* A settings window loads the values when it is first painted, keeps them *)
(* as m_wsPort, m_MicroName ..., and on its way out stores those that its  *)
(* controls show differently.  Several windows may be open, one inside the *)
(* message loop of the other (see MainApp).  Commands run on the service   *)
(* thread, so between any two registry accesses of a window.  A value has  *)
(* a type, and pages may store any type under any name.                    *)
(*                                                                         *)
(* A DWORD is written as the int with the same bits: TLC has no larger     *)
(* numbers.  The text of an edit control is what strtol makes of it.       *)
(***************************************************************************)
EXTENDS Integers, Sequences, SequencesExt, FiniteSetsExt

CONSTANTS
    Fields,       \* the settings of this instance, of those below
    Numbers,      \* DWORDs, numbers typed into an edit control
    Strings,      \* strings stored by pages, paths typed by the user
    ShortStrings, \* those of them that fit into a DWORD
    Defaults,     \* what HKEY_USERS may hold: the installer's values
    DeviceLists,  \* the devices that may be present when a window opens
    Tests,        \* the device tests: of the speaker, of the microphone
    MaxWindows,   \* bound: settings windows at a time
    MaxChanges    \* bound: changes by pages and by users of the windows

\* In the order in which OnExit stores them.
SaveOrder == <<"WebSocketPort", "Speaker", "MicroPhone", "SpeakerVolume",
               "MicroVolume", "LogLevel", "LogPath">>

Combos  == {"Speaker", "MicroPhone"}
Sliders == {"SpeakerVolume", "MicroVolume"}
Texts   == Combos \cup {"LogPath"}

SliderMax == 255
Empty     == ""
NoBytes   == "bytes"        \* the bytes of a DWORD other than 0, as a string
WordOf    == 28526          \* the bytes of a short string, as a DWORD

\* The fields of this instance, in order.
Kept(i) == IF SaveOrder[i] \in Fields THEN <<SaveOrder[i]>> ELSE <<>>
Order == Kept(1) \o Kept(2) \o Kept(3) \o Kept(4) \o Kept(5) \o Kept(6) \o Kept(7)

\* The strings of this instance, and what a registry value can be.
Strs == Strings \cup (UNION {Range(d) : d \in DeviceLists}) \cup {Empty, NoBytes}
Registered == [type : {"none", "dword", "sz"}, n : Int, s : Strs]

ASSUME SettingsAssumption ==
    /\ Fields \subseteq Range(SaveOrder) /\ Fields # {}
    /\ Numbers \subseteq Int /\ ShortStrings \subseteq Strings
    /\ DeviceLists \subseteq Seq(STRING)
    /\ Defaults \subseteq [Fields -> Registered]
    /\ MaxWindows \in Nat /\ MaxChanges \in Nat

None     == [type |-> "none", n |-> 0, s |-> Empty]
Dword(n) == [type |-> "dword", n |-> n, s |-> Empty]
Sz(s)    == [type |-> "sz", n |-> 0, s |-> s]
StoredByPages == {Dword(n) : n \in Numbers} \cup {Sz(s) : s \in Strings}

VARIABLES
    hkcu,         \* HKEY_CURRENT_USER\SoftWare\ytx\UCClient
    hku,          \* HKEY_USERS\.DEFAULT\..., which the program only reads
    windows,      \* the settings objects, the innermost last
    saver,        \* the window in OnExit, or 0
    next,         \* the field OnExit is at
    testing,      \* the SDK's device tests that run
    changes

vars == <<hkcu, hku, windows, saver, next, testing, changes>>

-----------------------------------------------------------------------------
(* ReadRegKeyDWORD and ReadRegKeyString: the user's key, then the default  *)
(* user's key, then the default.  A value of the wrong type is an error,   *)
(* but the query has already copied what fits into the result.             *)

ReadRegKeyDWORD(f, default) ==
    CASE hkcu[f].type = "dword" -> hkcu[f].n
      [] hkcu[f].type # "dword" /\ hku[f].type = "dword" -> hku[f].n
      [] OTHER -> IF \E r \in {hkcu[f], hku[f]} :
                        r.type = "sz" /\ r.s \in ShortStrings
                  THEN WordOf ELSE default

Bytes(n) == IF n % 256 = 0 THEN Empty ELSE NoBytes

ReadRegKeyString(f) ==
    CASE hkcu[f].type = "sz" -> hkcu[f].s
      [] hkcu[f].type # "sz" /\ hku[f].type = "sz" -> hku[f].s
      [] OTHER -> IF hku[f].type = "dword" THEN Bytes(hku[f].n)
                  ELSE IF hkcu[f].type = "dword" THEN Bytes(hkcu[f].n) ELSE Empty

UInt16(n) == n % 65536

Default(f) == CASE f = "WebSocketPort" -> 19998
                [] f = "LogLevel" -> 23
                [] OTHER -> 128

\* Mutant: m_wsPort is as wide as a DWORD.
LoadWide(f) == IF f \in Texts THEN ReadRegKeyString(f)
               ELSE ReadRegKeyDWORD(f, Default(f))

\* What OnPrepare keeps of a setting; m_wsPort is a uint16_t.
Load(f) == IF f \in Texts THEN ReadRegKeyString(f)
           ELSE IF f = "WebSocketPort" THEN UInt16(ReadRegKeyDWORD(f, Default(f)))
           ELSE ReadRegKeyDWORD(f, Default(f))

\* What the control shows then: a slider clamps, a combo that does not list
\* the device stays at the first one, which InitWindow selected.
Show(f, v, devices) ==
    CASE f \in Sliders -> IF v > SliderMax THEN SliderMax
                          ELSE IF v < 0 THEN 0 ELSE v
      [] f \in Combos -> IF v \in Range(devices) THEN v
                         ELSE IF devices = <<>> THEN Empty ELSE devices[1]
      [] OTHER -> v

\* What OnExit takes a control's content for.
Taken(f, v) == IF f = "WebSocketPort" THEN UInt16(v) ELSE v

\* Mutant: the overload of SetRegKey for strings is taken for the port.
StoredAsText(f, v) ==
    IF f \in Texts THEN Sz(v) ELSE IF f = "WebSocketPort" THEN Sz(NoBytes) ELSE Dword(v)

\* The type SetRegKey gives to a value.
Stored(f, v) == IF f \in Texts THEN Sz(v) ELSE Dword(v)

-----------------------------------------------------------------------------
\* A settings object before windowinit.
Created(devices) ==
    [st |-> "created", devices |-> devices, playing |-> {},
     loaded |-> [f \in Fields |-> IF f \in Texts THEN Empty ELSE 0],
     shown |-> [f \in Fields |->
                   Show(f, IF f \in Texts THEN Empty ELSE 0, devices)],
     touched |-> {},      \* history: changed by the user
     stale |-> {}]        \* history: stored by others since loaded or stored

Values(f) == IF f \in Texts THEN Strs ELSE Int

\* The innermost loop's window is there: the loop of a closed window ends
\* with the loops inside it.
TypeOK ==
    /\ \A f \in Fields : \A r \in {hkcu[f], hku[f]} :
          r.type \in {"none", "dword", "sz"} /\ r.n \in Int /\ r.s \in Strs
    /\ \A w \in DOMAIN windows :
          /\ windows[w].st \in {"created", "ready", "saved", "closed"}
          /\ windows[w].devices \in DeviceLists
          /\ windows[w].playing \subseteq Tests
          /\ windows[w].touched \subseteq Fields
          /\ windows[w].stale \subseteq Fields
          /\ \A f \in Fields : /\ windows[w].loaded[f] \in Values(f)
                               /\ windows[w].shown[f] \in Values(f)
    /\ windows # <<>> => Last(windows).st # "closed"
    /\ saver \in 0..Len(windows)
    /\ next \in 1..Len(Order)
    /\ testing \subseteq Tests
    /\ changes \in 0..MaxChanges

Init ==
    /\ hkcu = [f \in Fields |-> None]
    /\ hku \in Defaults
    /\ windows = <<>> /\ saver = 0 /\ next = 1
    /\ testing = {} /\ changes = 0

-----------------------------------------------------------------------------
(* A settings window.  OnExit keeps the window thread until it is done.    *)

Idle == saver = 0

Update(w, record) == windows' = [windows EXCEPT ![w] = record]

\* The settings button of the main window; the devices are listed now.
SettingsBtn ==
    /\ Idle /\ Len(windows) < MaxWindows
    /\ \E d \in DeviceLists : windows' = Append(windows, Created(d))
    /\ UNCHANGED <<hkcu, hku, saver, next, testing, changes>>

\* windowinit, at the first WM_PAINT.
OnPrepare(w) ==
    /\ Idle /\ windows[w].st = "created"
    /\ Update(w, [windows[w] EXCEPT
                    !.st = "ready",
                    !.loaded = [f \in Fields |-> Load(f)],
                    !.shown = [f \in Fields |-> Show(f, Load(f), windows[w].devices)],
                    !.stale = {}])
    /\ UNCHANGED <<hkcu, hku, saver, next, testing, changes>>

\* What the user can make a control show.
Enterable(f, devices) ==
    CASE f \in Combos  -> Range(devices)
      [] f \in Sliders -> {n \in Numbers : n \in 0..SliderMax}
      [] f = "LogPath" -> Strings
      [] OTHER -> Numbers

Edit(w, f) ==
    /\ Idle /\ windows[w].st = "ready" /\ changes < MaxChanges
    /\ \E x \in Enterable(f, windows[w].devices) :
          Update(w, [windows[w] EXCEPT !.shown[f] = x, !.touched = @ \cup {f}])
    /\ changes' = changes + 1
    /\ UNCHANGED <<hkcu, hku, saver, next, testing>>

\* speakerPlay, speakerPause, microphonePlay, microphonePause: of the two
\* buttons of a test one is visible.
Play(w, k) ==
    /\ Idle /\ windows[w].st = "ready" /\ k \notin windows[w].playing
    /\ Update(w, [windows[w] EXCEPT !.playing = @ \cup {k}])
    /\ testing' = testing \cup {k}
    /\ UNCHANGED <<hkcu, hku, saver, next, changes>>

Pause(w, k) ==
    /\ Idle /\ windows[w].st = "ready" /\ k \in windows[w].playing
    /\ Update(w, [windows[w] EXCEPT !.playing = @ \ {k}])
    /\ testing' = testing \ {k}
    /\ UNCHANGED <<hkcu, hku, saver, next, changes>>

\* closebtn and backBtn: OnExit begins.
OnExit(w) ==
    /\ Idle /\ windows[w].st = "ready"
    /\ saver' = w
    /\ UNCHANGED <<hkcu, hku, windows, next, testing, changes>>

\* SetRegKey by window w, or by a command if w = 0: the windows that have
\* loaded their values do not learn of it.
Unseen(w, f) ==
    [i \in DOMAIN windows |->
        IF windows[i].st \notin {"ready", "saved"} THEN windows[i]
        ELSE [windows[i] EXCEPT !.stale = IF i = w THEN @ \ {f} ELSE @ \cup {f}]]

\* OnExit at one setting, and Close after the last.
SaveField ==
    LET f    == Order[next]
        w    == windows[saver]
        v    == Taken(f, w.shown[f])
        last == next = Len(Order)
        save == v # w.loaded[f]
        wins == IF save THEN Unseen(saver, f) ELSE windows
    IN  /\ ~Idle
        /\ hkcu' = IF save THEN [hkcu EXCEPT ![f] = Stored(f, v)] ELSE hkcu
        /\ windows' = IF last THEN [wins EXCEPT ![saver].st = "saved"] ELSE wins
        /\ next' = IF last THEN 1 ELSE next + 1
        /\ saver' = IF last THEN 0 ELSE saver
        /\ UNCHANGED <<hku, testing, changes>>

\* A window that is gone: its object no longer reads its controls.
Gone(w) == [Created(w.devices) EXCEPT !.st = "closed", !.playing = w.playing]

\* The objects whose loop goes on.
Unwind(stack) ==
    SubSeq(stack, 1, Max({0} \cup {i \in DOMAIN stack : stack[i].st # "closed"}))

\* Mutant: a window's object goes with its window, whatever is inside.
ClosedInner(w) ==
    /\ Idle
    /\ windows' = [windows EXCEPT ![w] = Gone(@)]
    /\ UNCHANGED <<hkcu, hku, saver, next, testing, changes>>

\* Mutant: the destructor does not stop the tests.
ClosedTesting(w) ==
    /\ Idle /\ windows[w].st # "closed"
    /\ windows' = Unwind([windows EXCEPT ![w] = Gone(@)])
    /\ UNCHANGED <<hkcu, hku, saver, next, testing, changes>>

\* WM_CLOSE, after OnExit or for the Escape key.  An object lives as long as
\* its loop; its destructor stops the tests, whoever started them.
Closed(w) ==
    /\ Idle /\ windows[w].st # "closed"
    /\ windows' = Unwind([windows EXCEPT ![w] = Gone(@)])
    /\ testing' = IF Len(windows') < Len(windows) THEN {} ELSE testing
    /\ UNCHANGED <<hkcu, hku, saver, next, changes>>

\* The program ends and is started again: all loops return.
Restart ==
    /\ Idle /\ windows # <<>>
    /\ windows' = <<>> /\ testing' = {}
    /\ UNCHANGED <<hkcu, hku, saver, next, changes>>

-----------------------------------------------------------------------------
(* Commands of pages, on the service thread.                               *)

SetRegKey(f, r) ==
    /\ f \in Fields /\ changes < MaxChanges
    /\ hkcu' = [hkcu EXCEPT ![f] = r]
    /\ windows' = Unseen(0, f)
    /\ changes' = changes + 1
    /\ UNCHANGED <<hku, saver, next, testing>>

\* selectAudioRecordDevice and selectAudioPlayoutDevice: an index, as a
\* DWORD; without one in the command, an uninitialised one.
SelectAudioDevice == \E f \in Combos, n \in Numbers : SetRegKey(f, Dword(n))

\* 0 without a volume in the command.
SetAudioPlayoutVolume ==
    \E n \in Numbers \cup {0} : SetRegKey("SpeakerVolume", Dword(n))

\* Any name and any value; one member of the command at a time.
SetRegConfig == \E f \in Fields, r \in StoredByPages : SetRegKey(f, r)

-----------------------------------------------------------------------------
Window(w) ==
    \/ OnPrepare(w) \/ OnExit(w) \/ Closed(w)
    \/ \E f \in Fields : Edit(w, f)
    \/ \E k \in Tests : Play(w, k) \/ Pause(w, k)

Commands ==
    SelectAudioDevice \/ SetAudioPlayoutVolume \/ SetRegConfig

Next == \/ SettingsBtn \/ SaveField \/ Restart \/ Commands
        \/ \E w \in DOMAIN windows : Window(w)

Spec == Init /\ [][Next]_vars

-----------------------------------------------------------------------------
\* A control can show the value: the device is there, the volume is in range.
Showable(f, v, devices) == Show(f, v, devices) = v

\* A window stores a setting its user did not touch only if its control could
\* not show it (OnExit compares with what OnPrepare kept, not with the
\* registry): a command's change in between is not undone by closing the
\* window, and a port outside 16 bits is not rewritten either.
UntouchedKept ==
    [][\A f \in Fields :
         (saver # 0 /\ f = Order[next] /\ <<saver, next>>' # <<saver, next>>) =>
            LET w == windows[saver] IN
            \/ hkcu'[f] = hkcu[f]
            \/ f \in w.touched
            \/ ~Showable(f, w.loaded[f], w.devices)]_vars

\* What a window showed when it was left is what the next one will load,
\* whatever types pages had stored, unless somebody else stored a value after
\* this one had loaded it.
SavedIsShown ==
    \A w \in DOMAIN windows : windows[w].st = "saved" =>
        \A f \in Fields \ windows[w].stale :
            Load(f) = Taken(f, windows[w].shown[f])

\* A device test runs only while an object lives that shows it as running:
\* no tone goes on after the settings windows are gone.
TestOwned == \A k \in testing : \E w \in DOMAIN windows : k \in windows[w].playing
=============================================================================
