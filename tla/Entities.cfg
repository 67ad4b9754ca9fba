\* Two requests at a time, one of which may be a reload of the configuration file, on a
\* namespace, a target, a poller, a directory and a link to the poller; one content is made
\* after the start, and a reload that has begun may make a second one.  Three addresses are
\* enough: two requests and the cache hold no more objects of one entity.
CONSTANTS
  Clients = {c1, c2}
  Paths = {"directory", "link to poller"}
  Objects = {1, 2, 3}
  MaxWrites = 2
  MaxRequested = 1
  None = None
SPECIFICATION Spec
SYMMETRY Symmetry
INVARIANTS
  TypeOK
  StoredIsListed
PROPERTIES
  OrphansAreInserted
  CacheLeftBehind
