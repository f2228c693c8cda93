--------------------------- MODULE MCImageMigration ---------------------------
(* Two image streams, in one namespace or in two. *)
EXTENDS ImageMigration

One == [mapping |-> [ns1 |-> "ns1"], home |-> [s \in Streams |-> "ns1"], there |-> {1, 2},
        picked |-> {1, 2}, dest |-> [ns1 |-> "present"], changes |-> {}]
Two == [mapping |-> [ns1 |-> "new1", ns2 |-> "ns2"],
        home |-> <<"ns1", "ns2">>, there |-> {1, 2},
        picked |-> {1, 2}, dest |-> [new1 |-> "absent", ns2 |-> "absent"], changes |-> {}]

MCSetups ==
    { [One EXCEPT !.there = {1}, !.changes = {"stream"}],
      One,
      [One EXCEPT !.dest["ns1"] = "terminating", !.picked = {1}, !.changes = {"again"}],
      [Two EXCEPT !.picked = {1}, !.changes = {"cancel", "dim", "dism", "again"}],
      [Two EXCEPT !.picked = {1}, !.changes = {"cluster", "source"}],
      [Two EXCEPT !.picked = {1}, !.changes = {"namespace", "stream", "dism"}] }
===============================================================================
