SPECIFICATION UploadSpec
CONSTANTS
  None = None
  t1 = t1
  t2 = t2
  Thread = {t1, t2}
  Uploader = t1
  DialAddress = {"b1", "b2", "bad uri"}
  Malformed = {"bad uri"}
  MaxOpened = 3
  MaxMessages = 3
  ChannelSize = 2
INVARIANT RemainderForwarded
