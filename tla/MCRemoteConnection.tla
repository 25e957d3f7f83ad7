------------------------- MODULE MCRemoteConnection -------------------------
(***************************************************************************)
(* Values of RemoteConnection's constants for TLC.                         *)
(***************************************************************************)
EXTENDS RemoteConnection

TvMessage(kind, word) == [kind |-> kind, word |-> word, features |-> {}]

Configures == {[kind |-> "Configure", word |-> 0, features |-> {"voice"}]}

\* Enough to become Connected.
StartOnly == {TvMessage("Start", 1)}

\* Everything that is answered or remembered.
AnsweredMessages ==
    Configures \cup {TvMessage("SetActive", 0), TvMessage("Ping", 1),
                     TvMessage("ImeBatchEdit", 1)}

MirroredMessages ==
    {TvMessage("Start", 1), TvMessage("ImeKeyInject", 1), TvMessage("Volume", 1),
     TvMessage("Error", 0), TvMessage("Unknown", 0)}

VoiceMessages ==
    Configures \cup {TvMessage("Start", 1), TvMessage("VoiceBegin", 1)}

=============================================================================
