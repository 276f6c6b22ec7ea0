----------------------------- MODULE MCErasure -----------------------------
(***************************************************************************)
(* Instance of Erasure: the shapes that tell orders and origins apart,     *)
(* with every way to erase, to be blocked and to be left without eraser.   *)
(***************************************************************************)
EXTENDS Erasure

MCDatasets   == {"raw", "silver", "gold"}
MCPartitions == {1, 2}

E(from, to, whole) == [from |-> from, to |-> to, whole |-> whole]

\* A shape: edges, origin, the planner's order below it, where the subject's rows start.
Shape(edges, order, source) == [edges |-> edges, order |-> order, source |-> source]

Chain == {E("raw", "silver", FALSE), E("silver", "gold", TRUE)}
Shapes ==
  {Shape(Chain, <<"raw", "silver", "gold">>, "raw"),
   Shape(Chain \cup {E("raw", "gold", FALSE)}, <<"raw", "silver", "gold">>, "raw"),
   Shape({E("raw", "silver", TRUE), E("raw", "gold", FALSE)}, <<"raw", "gold", "silver">>, "raw"),
   Shape(Chain \cup {E("silver", "silver", FALSE)}, <<"raw", "silver", "gold">>, "raw"),
   Shape(Chain \cup {E("gold", "silver", FALSE)}, <<"raw", "gold", "silver">>, "raw"),
   Shape(Chain, <<"silver", "gold">>, "raw")}

\* The cells that hold what S does once every table is built.
Spread(edges, S) ==
  LET r == [edges |-> edges]
      spread[n \in 0 .. 4] ==
        IF n = 0 THEN S
        ELSE LET before == spread[n - 1]
             IN  before \cup {c \in Cells : Reads(r, c) \cap before # {}}
  IN  spread[4]

Hows    == {h \in [Datasets -> {"model", "keyed", "opaque"}] :
              h["raw"] # "model" /\ h["silver"] # "opaque" /\ h["gold"] # "opaque"}
AllCaps == [d \in Datasets |-> "rewrite"]
Caps    == {AllCaps, [AllCaps EXCEPT !["silver"] = "none"], [AllCaps EXCEPT !["gold"] = "unset"]}
Erasers == {Datasets, Datasets \ {"raw"}, Datasets \ {"gold"}}

\* The partitions asked for are those of the subject's rows, more, or too few.
Places == {[asked |-> {1}, found |-> {1}], [asked |-> {1, 2}, found |-> {1}],
           [asked |-> {1}, found |-> {1, 2}]}

\* What the planner answers and where the subject's rows have got to.
Answers ==
  {LET below == Spread(s.edges, {s.order[1]} \X p.asked)
   IN  [edges |-> s.edges, order |-> s.order, rows |-> Spread(s.edges, {s.source} \X p.found),
        dirty |-> [d \in Datasets |-> {k \in Partitions : <<d, k>> \in below}]] :
     s \in Shapes, p \in Places}

MCRequests ==
  {[edges |-> l.edges, order |-> l.order, rows |-> l.rows, dirty |-> l.dirty,
    how |-> h, caps |-> c, erasers |-> x, transactional |-> t] :
     l \in Answers, h \in Hows, c \in Caps, x \in Erasers, t \in BOOLEAN}
=============================================================================
