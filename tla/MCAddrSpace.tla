---------------------------- MODULE MCAddrSpace ----------------------------
EXTENDS AddrSpace

\* A reserved hole, a module below the kernel in one entry with it, and the frame
\* buffer behind a gap.
MCEntries == <<
  [type |-> "USABLE", base |-> 0, len |-> 2],
  [type |-> "RESERVED", base |-> 2, len |-> 1],
  [type |-> "USABLE", base |-> 3, len |-> 36],
  [type |-> "KERNEL_AND_MODULES", base |-> 39, len |-> 3],
  [type |-> "BOOTLOADER_RECLAIMABLE", base |-> 42, len |-> 2],
  [type |-> "FRAMEBUFFER", base |-> 56, len |-> 2] >>
=============================================================================
