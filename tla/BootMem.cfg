\* Pages of 4 bytes, the kernel linked 4 pages above its physical place, room
\* for 4 pages of boot allocations: sizes below, at and above a page.
CONSTANTS
    PAGE = 4
    KERNEL_BASE = 16
    alloc_start = 20
    KHEAP_END = 40
    Requests = {1, 4, 6}
SPECIFICATION Spec
INVARIANTS TypeOK HeapClearOfGrants GrantsUsable
PROPERTIES AllocatorSpec
\* the boot allocator is finished once heap_init has run
CHECK_DEADLOCK FALSE
