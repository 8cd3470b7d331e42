SPECIFICATION LocksFairSpec
CONSTANTS
  Threads = {"h1", "h2"}
  Copying = {}
  Prompt = {"h1"}
  Caches = {"json", "bincraft"}
  Copied = {}
  Rebuilds <- MCRebuilds
PROPERTIES
  LoopNeverHeldUp
