SPECIFICATION Spec
CONSTANTS
  Routine <- Policies
  Policy <- ItsOwn
PROPERTY RestartsAsDocumented
