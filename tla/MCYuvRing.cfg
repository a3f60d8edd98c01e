SPECIFICATION FairSpec
CONSTANTS
  DataSize = 3
  MaxRequests = 3
INVARIANT Fresh
PROPERTIES InOrderWhileAligned ReaderServed
