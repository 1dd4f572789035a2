------------------------------ MODULE MCFraming ------------------------------
(***************************************************************************)
(* Streams of three messages for Framing.  A header is one byte or two     *)
(* (the length is in the second), a body is absent, fits, fits exactly     *)
(* when the header does, or is too large.  A wide body begins with a       *)
(* character of two bytes.                                                 *)
(***************************************************************************)
EXTENDS Framing

\* header, where the length line is, body, kind of the body
Shapes ==
  {<<1, 0, 0, {}>>, <<2, 1, 2, {}>>, <<2, 0, 3, {"wide"}>>,
   <<1, 0, 3, {"opaque"}>>, <<2, 1, 2, {"opaque"}>>, <<1, 0, 6, {"opaque"}>>,
   <<1, 0, 2, {"chunked"}>>, <<2, 1, 4, {"chunked"}>>,
   <<2, 1, 2, {"chunked", "opaque"}>>}

Length(shape) == shape[1] + shape[3]

Of(shapes, kind) == {i \in Messages : kind \in shapes[i][4]}

StreamOf(shapes) ==
  LET start == [i \in 1 .. 4 |-> IF i = 1 THEN 0
                 ELSE IF i = 2 THEN Length(shapes[1])
                 ELSE IF i = 3 THEN Length(shapes[1]) + Length(shapes[2])
                 ELSE Length(shapes[1]) + Length(shapes[2]) + Length(shapes[3])]
  IN  [start |-> start,
       head |-> [i \in Messages |-> start[i] + shapes[i][1]],
       line |-> [i \in Messages |-> start[i] + shapes[i][2]],
       chunked |-> Of(shapes, "chunked"),
       opaque |-> Of(shapes, "opaque"),
       midchar |-> {start[i] + shapes[i][1] + 1 : i \in Of(shapes, "wide")}]

MCStreams == {StreamOf(shapes) : shapes \in [Messages -> Shapes]}
=============================================================================
