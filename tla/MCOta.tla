-------------------------------- MODULE MCOta --------------------------------
(* Small instances of Ota: two reports with one or two version readings. *)
EXTENDS Ota, TLC

CONSTANTS ra, rb, w1, w2

\* The value of a reading: 20 bits of tag, minor, major.
Value(tag, major, minor) == tag + minor * 2^20 + major * 2^26
Told1(type, tag, major, minor, at) ==
    [type |-> type, value |-> Value(tag, major, minor), at |-> at]

\* Two OS updates in one report, with a device without tags and an unknown tag in
\* the other; and an update of the OS and one of the application, in parallel.
TwoUploads ==
    {(ra :> <<Told1("os", 2048, 1, 2, 1), Told1("os", 2048, 2, 1, 2)>>)
       @@ (rb :> <<Told1("os", 1024, 0, 0, 1), Told1("os", 9, 1, 0, 2)>>),
     (ra :> <<Told1("os", 2048, 2, 1, 2)>>) @@ (rb :> <<Told1("app", 7, 1, 0, 1)>>)}

V(tag, major, minor) == [tag |-> tag, major |-> major, minor |-> minor]
Known == [t \in Part |-> IF t = "os" THEN {V(2048, 1, 2), V(2048, 2, 0)}
                         ELSE {V(7, 1, 0)}]

SomeRules ==
    [part : {"os", "app"}, op : {"lt", "lte", "eq", "gt", "gte"}, tag : {0},
     major : {2}, minor : {1}]
      \cup [part : {"os", "app"}, op : {"tag"}, tag : {7, 2048}, major : {0}, minor : {0}]
      \cup [part : {"hw"}, op : {"eq"}, tag : {0}, major : {0}, minor : {0}]

\* There is no deployment yet, or one that was released for the device.
NoneOrOne == {NoRow, [covers |-> TRUE, released |-> TRUE, completed |-> FALSE]}

Symmetry == Permutations(Worker) \cup Permutations(Action)
=============================================================================
