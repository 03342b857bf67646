------------------------------- MODULE QueueLayout -------------------------------
(***************************************************************************)
(* VirtQueueLayout (queue.rs): where the three parts of a virtqueue are,   *)
(* in one DMA area for legacy devices and in two for others, with the page *)
(* arithmetic of lib.rs.                                                   *)
(***************************************************************************)
EXTENDS Integers, Sequences

PAGE_SIZE == 4096

\* (size + PAGE_SIZE) & !(PAGE_SIZE - 1): one page more than needed if size is
\* a multiple of the page already.
align_up(size) == (size + PAGE_SIZE) - ((size + PAGE_SIZE) % PAGE_SIZE)

pages(size) == (size + PAGE_SIZE - 1) \div PAGE_SIZE

\* queue_part_sizes, for a power of two n.
desc_size(n) == 16 * n
avail_size(n) == 2 * (3 + n)
used_size(n) == 2 * 3 + 8 * n

\* The pages of the DMA areas of a queue.
allocate_legacy(n) == <<(align_up(desc_size(n) + avail_size(n)) + align_up(used_size(n))) \div PAGE_SIZE>>
allocate_flexible(n) == <<pages(desc_size(n) + avail_size(n)), pages(used_size(n))>>

\* The pages that the device half maps, from descriptors_paddr on and, if the
\* layout is flexible, from device_area_paddr on.
map_legacy(n) == <<(align_up(desc_size(n) + avail_size(n)) + align_up(used_size(n))) \div PAGE_SIZE>>
map_flexible(n) == <<pages(desc_size(n) + avail_size(n)), pages(used_size(n))>>

\* Offsets of the parts in their areas.
avail_offset(n) == desc_size(n)
used_offset(n) == align_up(desc_size(n) + avail_size(n))

\* The addresses given to the transport: dma is the address of the area, or
\* the two addresses.
descriptors_paddr(dma) == dma[1]
driver_area_paddr(dma, n) == dma[1] + avail_offset(n)
device_area_paddr(dma, n) == IF Len(dma) = 1 THEN dma[1] + used_offset(n) ELSE dma[2]
=============================================================================
