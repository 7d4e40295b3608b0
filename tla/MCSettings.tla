---------------------------- MODULE MCSettings ----------------------------
(* Small instances of Settings for TLC. *)
EXTENDS Settings, TLC

\* Zero, and a number that no slider and no 16-bit port can hold.
MCNumbers == {0, 85534}

\* Nothing, or a port beyond 16 bits and a device that is not always there.
MCDefaults ==
    LET none == [f \in Fields |-> None] IN
    {none, [none EXCEPT !["WebSocketPort"] = Dword(85534),
                        !["MicroPhone"] = Sz("mic1")]}

\* The microphones are there when a window opens, or unplugged.
MCDevices == {<<"mic0", "mic1">>, <<>>}
=============================================================================
