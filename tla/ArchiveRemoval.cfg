SPECIFICATION Spec
CONSTANTS
  ArvNpages = {1, 3}
  LogNpages = 2
  ha_copy_log_max_archives = 1
  MaxArchives = 4
  MaxRestarts = 1
  MaxUpdateErrors = 1
INVARIANTS RestartFindsItsLog FindsTheArchive NewestArchivesKept
