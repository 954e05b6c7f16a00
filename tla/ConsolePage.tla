----------------------------- MODULE ConsolePage -----------------------------
(***************************************************************************)
(* What the pages of the console have in common.                           *)
(*                                                                         *)
(* A page asks the server and goes on when the answer arrives, in any      *)
(* order; a record of what was asked stands for the request and for the    *)
(* values the handler took with it.  Every request ends: with an answer,   *)
(* with an error or with the timeout of the client.                        *)
(***************************************************************************)
EXTENDS Naturals, Sequences, FiniteSets, SequencesExt

CONSTANTS
  Projects,
  CallIds,      \* calls a page has under way at a time (symmetric)
  None, Idle

ASSUME ProjectsAssumption == None \notin Projects

NoCalls == [c \in CallIds |-> Idle]

\* Someone has started a call, and one has ended.
Started(calls, c, call) == [calls EXCEPT ![c] = call]
Ended(calls, c) == [calls EXCEPT ![c] = Idle]

\* The first text that is not empty.
FirstText(texts, default) ==
  LET given == SelectSeq(texts, LAMBDA text : text # "")
  IN IF given = <<>> THEN default ELSE Head(given)

\* pickPrimaryOrFirst, of bound resources with their names.
PickPrimaryOrFirst(bound, default) ==
  LET candidates == SelectSeq(bound, LAMBDA b : b.primary) \o bound
  IN IF candidates = <<>> THEN default ELSE Head(candidates).name
=============================================================================
