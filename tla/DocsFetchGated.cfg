SPECIFICATION Spec
CONSTANTS
  NumPages = 2
  TaskOf <- OneTask
  KeyOf <- TwoListsKeys
  UrlOf <- TwoListsUrls
  SlugOf <- TwoSlugs
  HostOf <- OneHost
  Agents = {"conventional"}
  Plain = "plain"
  GatedAgent = "conventional"
  Invocations <- PlainInvocations
  Retries = 2
  Editions = {1, 2}
  NoFile = NoFile
  Torn = Torn
  NoText = NoText
  NeverTried = NeverTried
  Unread = Unread
  Unreachable = Unreachable
INVARIANT GatedAsDeclared
CHECK_DEADLOCK FALSE
