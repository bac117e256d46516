SPECIFICATION FairSpec
CONSTANTS
  s1 = s1  s2 = s2  r1 = r1  r2 = r2
  Nobody = Nobody
  Senders = {s1, s2}
  Receivers = {r1}
  Lengths = {1, 2, 4}
  MAX_MSG_SIZE = 3
  Calls = 2
INVARIANTS BytesInOrder MessagesAreWhole
PROPERTIES ReceiverSeesBytes
CHECK_DEADLOCK FALSE
