---------------------------- MODULE TerminalControl ----------------------------
(***************************************************************************)
(* What a terminal session promises about control                          *)
(* (docs/spec/20260720-multi-device-terminal-control.md, D2 to D4): the    *)
(* live clients form a line in the order of their arrival, exactly one of  *)
(* them holds the control while there is any, a client that arrives never  *)
(* takes it from another, a client that stands in line may take it, and    *)
(* the head of the line inherits it when the holder leaves.  Once the      *)
(* session is closed nobody arrives and nobody takes the control.          *)
(* SessionRuntime implements this module.                                  *)
(***************************************************************************)
EXTENDS Integers, Sequences

CONSTANTS Clients, Nobody

VARIABLES
  line,    \* the live clients, oldest first
  holder,  \* the one that controls the terminal
  up       \* the session accepts clients

vars == <<line, holder, up>>

InLine(c) == \E i \in DOMAIN line : line[i] = c

Init == line = <<>> /\ holder = Nobody /\ up = TRUE

Arrive(c) ==
  /\ up /\ ~InLine(c)
  /\ line' = Append(line, c)
  /\ holder' = IF line = <<>> THEN c ELSE holder
  /\ UNCHANGED up

Take(c) ==
  /\ up /\ InLine(c)
  /\ holder' = c
  /\ UNCHANGED <<line, up>>

Leave(c) ==
  /\ \E i \in DOMAIN line :
       /\ line[i] = c
       /\ line' = [j \in 1 .. Len(line) - 1 |-> IF j < i THEN line[j] ELSE line[j + 1]]
  /\ holder' = IF line' = <<>> THEN Nobody
               ELSE IF holder = c THEN line'[1] ELSE holder
  /\ UNCHANGED up

Close ==
  /\ up' = FALSE
  /\ UNCHANGED <<line, holder>>

\* The process is gone: everybody is sent away.
End ==
  /\ ~up
  /\ line' = <<>> /\ holder' = Nobody
  /\ UNCHANGED up

Next == (\E c \in Clients : Arrive(c) \/ Take(c) \/ Leave(c)) \/ Close \/ End

Spec == Init /\ [][Next]_vars

\* The holder is somebody in line, and there is one as long as anybody is in line.
HolderInLine == IF line = <<>> THEN holder = Nobody ELSE InLine(holder)
=============================================================================
