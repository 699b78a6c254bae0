-------------------------- MODULE ChunkReassembler --------------------------
(***************************************************************************)
(* ParameterChunkReassembler of                                            *)
(* src/src/packets/parameter_settings_entry.rs: collects the fragments of  *)
(* a parameter entry that does not fit one frame.  A reassembler is a      *)
(* value, [param, chunks]; the operators are its methods.                  *)
(*                                                                         *)
(* chunks_received is Len(chunks): the code increments it with every       *)
(* push to `chunks` and clears both together.  The two addresses,          *)
(* total_chunks and `complete` are stored by the code and read by no       *)
(* decision of it: they are left out, and so is the frame the fragments    *)
(* are copied to before they are parsed.                                   *)
(***************************************************************************)
EXTENDS Naturals, Sequences

CONSTANTS
  ParamId,    \* parameter numbers (u8)
  Remaining,  \* values of chunks_remaining (u8)
  Fragment,   \* payloads of one chunk
  MaxChunks   \* MAX_CHUNKS (8)

Chunk == [param : ParamId, remaining : Remaining, payload : Fragment]

Reassembler == [param : ParamId, chunks : Seq(Fragment)]

(* reset() and new() *)
Idle == [param |-> 0, chunks |-> << >>]

(* is_idle() *)
IsIdle(asm) == asm.chunks = << >>

(* chunks_received() *)
ChunksReceived(asm) == Len(asm.chunks)

(* Seeded fault: a chunk of another parameter is not noticed. *)
AdmitAnyParameter(asm, chunk) ==
  IF IsIdle(asm) THEN [param |-> chunk.param, chunks |-> << >>] ELSE asm

(* The reassembler the guards of push() leave: a chunk of another          *)
(* parameter abandons the one in progress, the first chunk names it.       *)
Admit(asm, chunk) ==
  IF IsIdle(asm) \/ asm.param # chunk.param
    THEN [param |-> chunk.param, chunks |-> << >>]
    ELSE asm

(* The chunk budget is exhausted: push() resets and returns Err. *)
Overflows(asm, chunk) == ChunksReceived(Admit(asm, chunk)) >= MaxChunks

(* push() of a chunk within the budget: the payload is buffered.  Nothing  *)
(* compares its place in the sequence, or its sender, with the others'.    *)
Buffer(asm, chunk) ==
  LET admitted == Admit(asm, chunk) IN
  [admitted EXCEPT !.chunks = Append(@, chunk.payload)]

(* push() has seen the last chunk and goes on to reassemble(). *)
Completes(chunk) == chunk.remaining = 0
=============================================================================
