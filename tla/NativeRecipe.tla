---------------------------- MODULE NativeRecipe -----------------------------
(***************************************************************************)
(* The form of a native recipe, shared by the lowering that writes one,    *)
(* the profile that admits one and the executor that runs one.             *)
(*                                                                         *)
(* A node, and likewise a channel, is named by the calls it was            *)
(* specialised for (outermost first), the pointer of its block, the block  *)
(* kind and the role: what _stable_id digests.                             *)
(***************************************************************************)
EXTENDS Integers, Sequences, FiniteSets, TLC, SequencesExt

Name(p, kind, role) == [ns |-> << >>, p |-> p, k |-> kind, r |-> role]

Result(id) == Name(<< >>, id, "result")
Counts == Name(<< >>, "loop", "counts")
Outcome == Name(<< >>, "lockstep", "outcome")
Continue == Name(<< >>, "lockstep", "continue")
Nowhere == Name(<< >>, "", "")
START == Name(<< >>, "", "START")
END == Name(<< >>, "", "END")

Got(f, x, otherwise) == IF x \in DOMAIN f THEN f[x] ELSE otherwise

Put(f, x, v) == (x :> v) @@ f

\* The elements of a set, each once, in an order that is always the same.
Listed(S) == FoldSet(LAMBDA x, seq : Append(seq, x), << >>, S)

NoResult == [outcome |-> "none", value |-> "none", code |-> "none"]

(***************************************************************************)
(* Conditions are disjunctions of conjunctions of comparisons, a set of    *)
(* sets; the condition of an unconditional edge is the empty conjunction.  *)
(***************************************************************************)
Always == {{}}
Only(c) == {{c}}

Is(key, field, lit) == [key |-> key, field |-> field, lit |-> lit, eq |-> TRUE]
IsNot(key, field, lit) == [key |-> key, field |-> field, lit |-> lit, eq |-> FALSE]

Edge(from, to, when) == [from |-> from, to |-> to, when |-> when]
=============================================================================
