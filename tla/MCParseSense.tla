---------------------------- MODULE MCParseSense ----------------------------
(***************************************************************************)
(* Sense buffers of 28 bytes for TLC: every header that the function tells *)
(* apart, followed by two descriptors of the types, lengths and            *)
(* flags it tells apart, the reported length cutting them at every place   *)
(* that matters; and what the modelled drives answer.                      *)
(***************************************************************************)
EXTENDS SenseOnTheWire

FixedBuffers ==
  {Array(<<r, 0, k, 0, 0, 0, 0, n, 0, 0, 0, 0, c[1], c[2], 0, f, 64, 1>>) :
     r \in {112, 241}, k \in {0, 2, 3, 6 + 128}, n \in {0, 4, 5, 6, 9, 10},
     c \in {<<0, 0>>, <<4, 4>>, <<4, 1>>}, f \in {0, 128}}

(* Type, additional length n, SKSV flag f and a progress value from b.     *)
Desc(t, n, f, b) == SubSeq(<<t, n, 0, 0, f, b, b + 1, 9>>, 1, IF n > 6 THEN 8 ELSE 2 + n)

Descs ==
  {Desc(2, 6, 0, 16), Desc(2, 6, 128, 32), Desc(2, 5, 128, 48), Desc(2, 4, 128, 56),
   Desc(10, 6, 0, 64), Desc(10, 5, 0, 80), Desc(10, 6, 0, 96),
   Desc(0, 0, 0, 0), Desc(0, 255, 128, 112)}

DescriptorBuffers ==
  {Array(<<h[1], h[2], h[3], h[3], 0, 0, 0, n>> \o d \o e) :
     h \in {<<114, 0, 0>>, <<243, 2, 4>>, <<114, 5, 0>>},
     n \in {0, 7, 8, 15, 16, 255}, d \in Descs, e \in Descs}

OtherBuffers == {Array(<<r>>) : r \in {0, 111, 116, 128}}

MCBuffers ==
  FixedBuffers \cup DescriptorBuffers \cup OtherBuffers \cup UNION {Wire[r] : r \in Answers}
MCLengths == {7, 8, 17, 28}
=============================================================================
