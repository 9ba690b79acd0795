------------------------------ MODULE ConsolePage ------------------------------
(***************************************************************************)
(* What the pages of the web console share: a mounted page has the state of *)
(* its hooks (ui) and the requests whose continuations still wait (calls), *)
(* in the order they were asked. Answers land in any order, each as success *)
(* or failure, with whatever the server may answer; a continuation sees the *)
(* page's state as its closure captured it, so a call carries what its      *)
(* handler read before it awaited.                                          *)
(*                                                                         *)
(* A behaviour is one page from its mount on: a page keeps nothing when it   *)
(* is left. An effect of React, its zero timer included, is part of the      *)
(* step that changes what it depends on. Whether an answer is fresh, and that *)
(* equal questions may share one answer, is the subject of RequestRuntime:    *)
(* here each lands by itself.                                               *)
(***************************************************************************)
EXTENDS Naturals, Sequences, FiniteSets

CONSTANTS
  MaxCalls,  \* requests a user keeps waiting at once
  Rows,      \* identifiers of rows
  None       \* null, undefined

VARIABLES page, ui, calls


pageVars == <<page, ui, calls>>

\* The fields of both records, c's value of a common one: @@ of module TLC, written out
\* for the proofs.
Merged(c, d) == [f \in DOMAIN c \cup DOMAIN d |-> IF f \in DOMAIN c THEN c[f] ELSE d[f]]

\* The user acts while fewer than MaxCalls requests wait.
Room == Len(calls) < MaxCalls

\* An answer whose effects ask again lands while this many requests wait at most.
Bounded == Len(calls') <= MaxCalls + 2

Asked(new) == calls' = calls \o new

\* The answer of call i lands; its continuation asks for what is in new. Rest is RemoveAt
\* of SequencesExt, written out like Merged.
Rest(i) == SubSeq(calls, 1, i - 1) \o SubSeq(calls, i + 1, Len(calls))
Landed(i, new) == calls' = Rest(i) \o new

\* A request with a number of its own: of those of its kind that waited, the
\* answers come too late.
Numbered(waiting, new) ==
  Append([i \in DOMAIN waiting |-> IF waiting[i].op = new.op THEN [waiting[i] EXCEPT !.late = TRUE]
                                   ELSE waiting[i]], Merged(new, [late |-> FALSE]))

Waiting(op) == {i \in DOMAIN calls : calls[i].op = op}

\* setState of one or of several hooks.
With(record, changes) == Merged(changes, record)

On(spinner) == ui.busy \cup {spinner}
Off(spinner) == ui.busy \ {spinner}
=============================================================================
