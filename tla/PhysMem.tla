------------------------------- MODULE PhysMem -------------------------------
(***************************************************************************)
(* The physical memory manager (kernel/src/memory/pmm.c): a bitmap with    *)
(* one bit per page frame, scanned byte by byte, and a counter of the      *)
(* frames in use that is kept beside it.                                   *)
(*                                                                         *)
(* bitmap is the set of the bits that are 1.  The bitmap is a whole number *)
(* of bytes, so it has bits behind the last frame when NumFrames is no     *)
(* multiple of FramesPerByte (the code's 0xFFFFF frames leave one); they   *)
(* are set like the others by pmm_init and addressed like the others by    *)
(* the operations, but the scans stop before the last, partial byte.       *)
(*                                                                         *)
(* A frame's address is its number, so that frame 0 has the address NULL.  *)
(* The boot frames begin with the 256 frames of real mode memory, more     *)
(* than the first eight bytes of the bitmap describe.                      *)
(*                                                                         *)
(* pmm_alloc_frames, which nothing calls, is left out.                     *)
(*                                                                         *)
(* held is the callers' view: the frames pmm_alloc_frame has returned and  *)
(* nobody has given back.                                                  *)
(***************************************************************************)
EXTENDS Integers, FiniteSets

CONSTANTS
  NumFrames,       \* pmm_num_memory_frames
  FramesPerByte,   \* PMM_FRAMES_PER_BITMAP_BYTE
  BootFrames       \* the frames vmm_init reserves: real mode and the kernel

ASSUME PhysMemAssumption ==
  /\ NumFrames \in Nat \ {0}
  /\ FramesPerByte \in Nat \ {0}
  /\ BootFrames \subseteq 0 .. NumFrames - 1
  /\ 0 .. FramesPerByte * FramesPerByte - 1 \subseteq BootFrames

\* The frame whose address is NULL.
NullFrame == 0

\* pmm_bitmap_size: the number of frames over a byte's bits, rounded up.
BitmapSize == (NumFrames + FramesPerByte - 1) \div FramesPerByte

Bits == 0 .. BitmapSize * FramesPerByte - 1
Frames == 0 .. NumFrames - 1

\* The bytes that the scans visit.
ScannedBytes == 0 .. (NumFrames \div FramesPerByte) - 1

VARIABLES
  booted,      \* vmm_init has reserved the boot frames
  bitmap,      \* pmm_bitmap
  used,        \* pmm_num_memory_frames_used
  held         \* the callers' view

pmmVars == <<booted, bitmap, used, held>>

-----------------------------------------------------------------------------
(* The single-frame operations on the bitmap and its counter.              *)

\* Mutant: the counter is incremented for frames that were in use already.
SetFramesCountsAll(F) ==
  /\ bitmap' = bitmap \cup F
  /\ used' = used + Cardinality(F)

\* pmm_set_frame for each frame of F; a frame whose bit is set already does
\* not count again.
SetFrames(F) ==
  /\ bitmap' = bitmap \cup F
  /\ used' = used + Cardinality(F \ bitmap)

\* pmm_unset_frame for each frame of F.
UnsetFrames(F) ==
  /\ bitmap' = bitmap \ F
  /\ used' = used - Cardinality(F \cap bitmap)

ByteOf(f) == f \div FramesPerByte

\* The frames pmm_find_free_frame can find.
FindableFrames == {f \in Bits : ByteOf(f) \in ScannedBytes /\ f \notin bitmap}

\* The frame it returns: the first one.
IsFirstFree(f) == f \in FindableFrames /\ \A g \in FindableFrames : f <= g

-----------------------------------------------------------------------------
(* The operations.                                                         *)

\* pmm_init: every frame is in use but those of the available regions, to which the
\* bits behind the last frame may belong.  The counter starts with NumFrames, so that
\* it may pass below 0 until vmm_init has run (in 32 bits: wrap around, and back).
PhysMemInit ==
  /\ booted = FALSE
  /\ held = {}
  /\ \E available \in SUBSET Bits :
       /\ bitmap = Bits \ available
       /\ used = NumFrames - Cardinality(available)

\* Mutant: the boot frames are mapped and not reserved.
VmmInitWithoutReserving ==
  /\ ~booted
  /\ booted' = TRUE
  /\ UNCHANGED <<bitmap, used, held>>

\* vmm_init, which runs before anybody asks for a frame.
VmmInit ==
  /\ ~booted
  /\ booted' = TRUE
  /\ SetFrames(BootFrames)
  /\ UNCHANGED held

\* pmm_alloc_frame, with a result; without one nothing changes.  For frame 0
\* the result is NULL, and the caller does not get the frame.
AllocFrame(f) ==
  /\ booted
  /\ used < NumFrames
  /\ IsFirstFree(f)
  /\ SetFrames({f})
  /\ held' = IF f = NullFrame THEN held ELSE held \cup {f}
  /\ UNCHANGED booted

\* pmm_free_frame and pmm_free_frames by the holder of the frames.
FreeFrames(F) ==
  /\ booted
  /\ F # {} /\ F \subseteq held
  /\ UnsetFrames(F)
  /\ held' = held \ F
  /\ UNCHANGED booted

\* pmm_mark_frame_reserved: vmm_map_page maps a frame its caller names (the
\* initial ramdisk, ACPI tables, device memory), in use or not.
MarkReserved(f) ==
  /\ booted
  /\ SetFrames({f})
  /\ UNCHANGED <<booted, held>>

\* pmm_mark_frame_available, called with a frame nobody holds.
MarkAvailable(f) ==
  /\ booted
  /\ f \notin held \cup BootFrames
  /\ UnsetFrames({f})
  /\ UNCHANGED <<booted, held>>

PhysMemNext ==
  \/ VmmInit
  \/ \E f \in Bits : AllocFrame(f)
  \/ \E F \in SUBSET held : FreeFrames(F)
  \/ \E f \in Frames : MarkReserved(f) \/ MarkAvailable(f)

PhysMemSpec == PhysMemInit /\ [][PhysMemNext]_pmmVars

-----------------------------------------------------------------------------
(* Properties.                                                             *)

PhysMemTypeOK ==
  /\ booted \in BOOLEAN
  /\ bitmap \subseteq Bits
  /\ used \in Int /\ (booted => used \in 0 .. NumFrames)
  /\ held \subseteq Frames

\* pmm_num_memory_frames_used and the bitmap agree after any sequence of
\* operations, frames reserved or released twice included: the number
\* pmm_get_available_memory_size reports is the number of clear bits.
CounterExact == NumFrames - used = Cardinality(Bits \ bitmap)

\* A frame stays marked while somebody holds it, so that no frame is handed
\* out a second time: pmm_alloc_frame only takes unmarked frames.
HeldFramesMarked == held \subseteq bitmap

\* Once vmm_init has reserved them, the frames of the kernel image and of real
\* mode memory are never handed out; frame 0 is one of them, whose address
\* pmm_alloc_frame's callers would take for a failure.
BootFramesKept == booted => BootFrames \subseteq bitmap \ held

\* The shortcut at the head of pmm_alloc_frame, which trusts the counter,
\* never refuses a request that the scan could serve.
NoSpuriousFailure == FindableFrames # {} => used < NumFrames
===============================================================================
