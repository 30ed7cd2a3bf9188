SPECIFICATION Spec
CONSTANTS
  Fails = {"losetup", "umount", "dd", "sfdisk", "mkfs", "mount", "rsync"}
INVARIANTS
  NotMixed
  PrintedMeansFormatted
CHECK_DEADLOCK FALSE
