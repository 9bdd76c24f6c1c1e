----------------------------- MODULE MCESP32VFS -----------------------------
(* Three places of two values, and a write buffer of two.  What a place    *)
(* holds is only compared, so that the values can be exchanged.            *)
EXTENDS ESP32VFS, TLC

Values == Permutations(Byte)

\* No action looks at what the last call returned, or at where the bytes of an
\* empty buffer would belong.
WhatActionsRead ==
  <<disk, stream.file, stream.tail, IF stream.tail = <<>> THEN 0 ELSE stream.at, handle,
    aBuffer, IF aBuffer = <<>> THEN 0 ELSE iBufferOfst, writing, dirty, faults>>
=============================================================================
