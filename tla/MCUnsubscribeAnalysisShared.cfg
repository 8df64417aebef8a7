CONSTANTS
  URLs = {"mailto:leave", "https://x.example/l", "https://x.example/optout", "{unsubscribe}"}
  Mailto = {"mailto:leave"}
  Web = {"https://x.example/l", "https://x.example/optout"}
  Keyword = {"https://x.example/optout", "{unsubscribe}"}
  Template = {"{unsubscribe}"}
  Garbage = "garbage"
  Messages = {"newsletter", "list", "silent", "personal", "broken"}
  Header <- MCHeader
  OneClick = {"newsletter"}
  Anchors <- MCAnchors
  Jobs = {j1, j2}
  None = None
SPECIFICATION Spec
INVARIANTS LoneReportIsOwn KeywordLinkIsFound
