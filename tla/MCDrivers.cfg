SPECIFICATION MCSpec
CONSTANTS
  ENET_RXBD_NUM = 3
  ENET_TXBD_NUM = 2
  ENET_TIMEOUT = 2
  PBUF_POOL_SIZE = 2
  Received = {in}
  Damaged = Damaged
  Sent = {out1, out2}
  Empty = Empty
  EST <- MCEST
  FirstAnswers <- MCFirstAnswers
  Later <- MCLater
  NoAnswer = NoAnswer
  PAINT_WIDTH = 176
  PAINT_HEIGHT = 264
  Faces <- MCFaces
INVARIANT TypeOK
INVARIANT EndsMeet
INVARIANT RtcHoldsServerTime
INVARIANT LocalTimeRight
INVARIANT FaceReadable
PROPERTY RingsAreQueues
PROPERTY RingsDrain
