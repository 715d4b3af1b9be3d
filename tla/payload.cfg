CONSTANTS
  Words <- Strings
  Depth = 3
  DevKit = {1, 2}
  Contents <- Samples
  MaxFrame = 2
  MaxSwitch = 2
SPECIFICATION Spec
INVARIANTS TypeOK OffTopicWithheld FieldsGenuine OwnPartExact PathsAgree EchoComesBack
