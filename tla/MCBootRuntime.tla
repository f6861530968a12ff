---------------------------- MODULE MCBootRuntime ----------------------------
(* Slots of six words, images with one fault each next to sound ones.         *)
EXTENDS BootRuntime

Laid(size, vector_words, got_offset, got_size, words) ==
  [size |-> size, vector_words |-> vector_words, got_offset |-> got_offset,
   got_size |-> got_size, data_load_offset |-> size - 4, word |-> [n \in 0 .. 5 |-> words[n + 1]]]

Sound ==
  {Laid(20, 3, 12, 4, <<136, 9, 13, 16, 0, 1>>),
   Laid(24, 2, 20, 4, <<128, 21, 1, 0, 0, 24>>),
   Laid(24, 3, 12, 4, <<136, 17, 251, 140, 0, 0>>),
   Laid(12, 3, 12, 0, <<128, 9, 0, 1, 1, 1>>)}

LinkedToA == Laid(24, 0, 0, 0, <<144, 73, 0, 0, 0, 0>>)

Refused ==
  {Laid(20, 3, 12, 4, <<136, 9, 12, 16, 0, 1>>),   \* a handler that is no thumb address
   Laid(20, 3, 12, 4, <<136, 9, 21, 16, 0, 1>>),   \* a handler behind the image
   Laid(24, 2, 8, 8, <<136, 9, 13, 16, 0, 1>>),    \* a GOT of two words
   Laid(16, 2, 16, 4, <<136, 9, 13, 16, 0, 1>>),   \* a GOT behind the image
   Laid(8, 3, 4, 4, <<136, 5, 13, 16, 0, 1>>),     \* vectors behind the image
   Laid(20, 4, 12, 4, <<136, 9, 13, 13, 0, 1>>),   \* too many vectors
   Laid(20, 3, 12, 4, <<132, 9, 13, 16, 0, 1>>)}   \* a stack that is not aligned

MCImages == Sound \cup Refused \cup {LinkedToA}
MCBase == [slot \in Slots |-> IF slot = "A" THEN 64 ELSE 96]

=============================================================================
