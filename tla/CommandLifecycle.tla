--------------------------- MODULE CommandLifecycle ---------------------------
(***************************************************************************)
(* What remote control promises to the administrator who publishes         *)
(* commands for one display (Module-Spec-004 sections 4, 6 and 10), with   *)
(* no queue, ledger, connection, retry, clock or crash in it.              *)
(*                                                                         *)
(* Every command has one answer.  It moves from published to accepted to   *)
(* one final status, which never changes and may later be forgotten.  A    *)
(* command changes the screen at most once and never after a later one     *)
(* did, and it is called executed only if it changed the screen, or is a   *)
(* refresh, whose effect is a snapshot.                                    *)
(***************************************************************************)
EXTENDS CommandProtocol, Sequences

VARIABLES
  answers,  \* for each id its kind and status, or None, or Forgotten
  effects   \* the commands that changed the screen, in order

lifecycleVars == <<answers, effects>>

None      == [status |-> "none"]
Forgotten == [status |-> "forgotten"]

Answers == [kind : Kinds, status : Statuses]

LifecycleInit ==
  /\ answers = [c \in Ids |-> None]
  /\ effects = << >>

\* What may become of an answer in one step.
Onward(answer) ==
  CASE answer = None            -> {None} \cup {a \in Answers : a.status = "published"}
    [] answer = Forgotten       -> {Forgotten}
    [] Final(answer.status)     -> {answer, Forgotten}
    [] answer \in Answers /\ ~ Final(answer.status) ->
         {answer, Forgotten} \cup
         {[answer EXCEPT !.status = s] : s \in FinalStatuses \cup {"accepted"}}

\* A claim to have executed a command is true.
Took(c) == \E i \in DOMAIN effects : effects[i] = c

Truthful(answer, c) == answer.status = "executed" => Took(c) \/ answer.kind = "refresh"

\* The daemon moves some answers on; commands are published in their order.
Answer ==
  /\ \A c \in Ids : answers'[c] \in Onward(answers[c]) /\ Truthful(answers'[c], c)
  /\ \A c, d \in Ids : c < d /\ answers'[d] # None => answers'[c] # None
  /\ UNCHANGED effects

\* The display changes the screen.
Effect(c) ==
  /\ answers[c] # None
  /\ \A i \in DOMAIN effects : effects[i] < c
  /\ effects' = Append(effects, c)
  /\ UNCHANGED answers

LifecycleNext == Answer \/ \E c \in Ids : Effect(c)

LifecycleSpec == LifecycleInit /\ [][LifecycleNext]_lifecycleVars

=============================================================================
