SPECIFICATION Spec
CONSTANTS
  NumPages = 2
  TaskOf <- OneTask
  KeyOf <- OneListKeys
  UrlOf <- OneListUrls
  SlugOf <- OneSlug
  HostOf <- OneHost
  Agents = {"conventional"}
  Plain = "plain"
  GatedAgent = "conventional"
  Invocations <- PlainInvocations
  Retries = 1
  Editions = {1, 2}
  NoFile = NoFile
  Torn = Torn
  NoText = NoText
  NeverTried = NeverTried
  Unread = Unread
  Unreachable = Unreachable
INVARIANT OneRetrievalOneFile
CHECK_DEADLOCK FALSE
