---------------------------- MODULE Deserializer ----------------------------
(***************************************************************************)
(* The state machine that cuts a byte stream into messages,                *)
(* src/src/server/deserializer.c.  A message is a header (a magic code and *)
(* the length of the payload) followed by the payload.                     *)
(*                                                                         *)
(* A deserializer is the number of bytes it has buffered.  What it decodes *)
(* from them is passed in as the header h = [length, magic] of the bytes   *)
(* at the front of its buffer; each operator looks only at the fields that *)
(* are in the buffer already.  The buffer itself is left out: every read   *)
(* goes through deserializer_buffer, which makes room for exactly the      *)
(* bytes that deserializer_missing asks for.                               *)
(***************************************************************************)
EXTENDS Naturals

CONSTANTS
  HEADER_SIZE_IN_BYTES,             \* 16
  HEADER_MAGIC_CODE_SIZE_IN_BYTES   \* 8

ASSUME HeaderAssumption ==
  /\ HEADER_SIZE_IN_BYTES \in Nat /\ HEADER_MAGIC_CODE_SIZE_IN_BYTES \in Nat
  /\ 0 < HEADER_MAGIC_CODE_SIZE_IN_BYTES
  /\ HEADER_MAGIC_CODE_SIZE_IN_BYTES < HEADER_SIZE_IN_BYTES

\* deserializer_create, and what deserializer_detach leaves behind.
EmptyDeserializer == 0

\* deserializer_validate: the magic code cannot be wrong before it is there.
Validate(size, h) == size < HEADER_MAGIC_CODE_SIZE_IN_BYTES \/ h.magic = "right"

Missing_one_more(size, h) ==
  IF size < HEADER_SIZE_IN_BYTES
  THEN HEADER_SIZE_IN_BYTES - size
  ELSE h.length + HEADER_SIZE_IN_BYTES - size + 1

Missing_forgets_buffered(size, h) ==
  IF size < HEADER_SIZE_IN_BYTES THEN HEADER_SIZE_IN_BYTES - size ELSE h.length

\* deserializer_missing.  The difference is taken in size_t: it must not be negative.
Missing(size, h) ==
  IF size < HEADER_SIZE_IN_BYTES
  THEN HEADER_SIZE_IN_BYTES - size
  ELSE h.length + HEADER_SIZE_IN_BYTES - size

Complete_needs_payload(size, h) == size > HEADER_SIZE_IN_BYTES /\ ~(Missing(size, h) > 0)

\* deserializer_detach, after new_bytes more bytes: the message is complete.
Complete(size, h) == ~(Missing(size, h) > 0)
=============================================================================
