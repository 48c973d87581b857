----------------------------- MODULE MCApprovals -----------------------------
(* An instance of Approvals for TLC: three requests over a leave that two     *)
(* people decide, one that was returned to its owner and a draft.           *)
EXTENDS Approvals, TLC

CONSTANTS d1, d2, d3, ann, bob, sub

MCSeat == 1 :> sub @@ 2 :> ann @@ 3 :> bob

Fact(d, n, s, action) == [doc |-> d, round |-> n, seq |-> s, action |-> action]
Item(d, who, type, n, s) == [doc |-> d, who |-> who, type |-> type, round |-> n, seq |-> s]

Blank == [kind |-> "assign", doc |-> None, by |-> None, fact |-> NoFact, to |-> None,
          items |-> <<>>, abort |-> FALSE, todo |-> None]
Deciding(who, fact, to, items) ==
  [Blank EXCEPT !.kind = "decide", !.doc = fact.doc, !.by = who, !.fact = fact, !.to = to, !.items = items]
On(kind, d) == [Blank EXCEPT !.kind = kind, !.doc = d]

ToAnn == Item(d1, ann, "approval", 1, 2)
ToBob == Item(d1, bob, "approval", 1, 3)
ToSub == Item(d1, sub, "rework", 1, 2)
Again == Item(d2, ann, "approval", 2, 2)

MCCalls ==
  {Deciding(ann, Fact(d1, 1, 2, "approved"), None, <<>>),
   Deciding(ann, Fact(d1, 1, 2, "returned"), "returned", <<ToSub>>),
   Deciding(ann, Fact(d1, 1, 2, "returned"), None, <<>>),
   Deciding(bob, Fact(d1, 1, 3, "rejected"), "rejected", <<>>),
   On("submit", d1), On("submit", d2), On("submit", d3),
   On("delete", d1), On("restore", d1),
   [On("status", d1) EXCEPT !.to = "cancelled"],
   [Blank EXCEPT !.items = <<ToAnn>>, !.abort = TRUE],
   [Blank EXCEPT !.items = <<ToBob, Again>>],
   [Blank EXCEPT !.items = <<Again, ToBob>>, !.abort = TRUE],
   [Blank EXCEPT !.kind = "patch", !.todo = 1, !.to = "completed"],
   [Blank EXCEPT !.kind = "patch", !.todo = 1, !.to = "open"]}

MCFiled == d1 :> "submitted" @@ d2 :> "returned" @@ d3 :> "draft"
MCFiledTrail ==
  {Fact(d1, 1, 1, "submitted"), Fact(d2, 1, 1, "submitted"), Fact(d2, 1, 2, "returned")}
MCFiledTodos ==
  [t \in Todos |->
     CASE t = 1 -> [item |-> ToAnn, state |-> "open", loose |-> FALSE]
       [] t = 2 -> [item |-> Item(d2, sub, "rework", 1, 2), state |-> "open", loose |-> FALSE]
       [] OTHER -> None]
=============================================================================
