SPECIFICATION Spec
CONSTANTS
  c1 = c1
  c2 = c2
  Conns = {c1, c2}
  Names = {"avmuxstream", "a", "b"}
  Camera = "avmuxstream"
  FileNames = {"a"}
  MaxStreams = 2
  MaxOuts = 1
  NoName = NoName
  NoStream = NoStream
SYMMETRY Perms
INVARIANTS LinksExact FilesHavePlayers ChannelsBalanced
PROPERTIES NobodyWaitsInVain
