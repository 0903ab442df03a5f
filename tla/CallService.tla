----------------------------- MODULE CallService -----------------------------
(***************************************************************************)
(* What the Rust crate of ChronDB promises to the threads that hold an     *)
(* instance: every call is answered, once, by an answer its command may    *)
(* have, and an instance is given up only between calls.                   *)
(***************************************************************************)
CONSTANTS
  Clients,
  Commands,
  NoCommand,
  Allowed,   \* Allowed[m]: kinds of answer command m may have
  NoAnswer

VARIABLES phase, command, answer

vars == <<phase, command, answer>>

Init ==
  /\ phase = [c \in Clients |-> "out"]
  /\ command = [c \in Clients |-> NoCommand]
  /\ answer = [c \in Clients |-> NoAnswer]

Enter(c) ==
  /\ phase[c] = "out"
  /\ phase' = [phase EXCEPT ![c] = "in"]
  /\ UNCHANGED <<command, answer>>

Leave(c) ==
  /\ phase[c] = "in"
  /\ phase' = [phase EXCEPT ![c] = "out"]
  /\ UNCHANGED <<command, answer>>

\* A call may be refused on the spot.
Ask(c) ==
  /\ phase[c] = "in"
  /\ phase' = [phase EXCEPT ![c] = "asked"]
  /\ \E m \in Commands :
       /\ command' = [command EXCEPT ![c] = m]
       /\ \/ UNCHANGED answer
          \/ \E a \in Allowed[m] : answer' = [answer EXCEPT ![c] = a]

Answer(c) ==
  /\ phase[c] = "asked" /\ answer[c] = NoAnswer
  /\ \E a \in Allowed[command[c]] : answer' = [answer EXCEPT ![c] = a]
  /\ UNCHANGED <<phase, command>>

Return(c) ==
  /\ phase[c] = "asked" /\ answer[c] # NoAnswer
  /\ phase' = [phase EXCEPT ![c] = "in"]
  /\ command' = [command EXCEPT ![c] = NoCommand]
  /\ answer' = [answer EXCEPT ![c] = NoAnswer]

Next == \E c \in Clients : Enter(c) \/ Leave(c) \/ Ask(c) \/ Answer(c) \/ Return(c)

Spec == Init /\ [][Next]_vars /\ \A c \in Clients : WF_vars(Answer(c) \/ Return(c))
==============================================================================
