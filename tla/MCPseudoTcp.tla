----------------------------- MODULE MCPseudoTcp -----------------------------
(* Instances of PseudoTcp. *)
EXTENDS PseudoTcp

Levels == <<2, 1>>

Load(a, b, closing, mishaps, kinds, mtu) ==
    [writes |-> [e \in Ends |-> IF e = "a" THEN a ELSE b], closing |-> closing,
     mishaps |-> mishaps, kinds |-> kinds, mtu |-> mtu, path |-> mtu]

\* Several segments from b, the end that listens, are left out: see ServerFirst.
Mixed ==
    { Load(7, 0, {"a"}, 0, {}, 1),                  \* more than the send buffer takes
      Load(4, 0, {}, 1, Kinds, 1),
      Load(5, 0, {}, 2, {"lose"}, 1),               \* fast retransmit and recovery
      Load(4, 0, {}, 2, {"lose", "route"}, 2),      \* segments are split
      Load(3, 1, {"a"}, 1, {"lose"}, 2) }           \* both ends write, Nagle holds back

\* The end that listens writes first, in two segments.
ServerFirst == {Load(0, 2, {}, 1, {"lose"}, 1)}
=============================================================================
