SPECIFICATION Spec
CONSTANTS
  build = build
  lint = lint
  style = style
  Ids = {build, style}
  Names = {build, lint}
  Workflow <- MCWorkflow
  Conclusions = {"SUCCESS", "SKIPPED"}
  MaxMain = 3
  MaxPushes = 1
  MaxItems = 3
  MaxReruns = 1
  ListLimit = 2
  None = None
INVARIANTS PassedWhileGreen
