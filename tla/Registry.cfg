SPECIFICATION Spec
CONSTANTS
  m1 = m1
  m2 = m2
  m3 = m3
  m4 = m4
  m5 = m5
  contextify = contextify
  report = report
  other = other
  Null = Null
  Modules <- SomeModules
  Names <- SomeNames
  NameOf <- SomeNameOf
  FlagsOf <- SomeFlagsOf
INVARIANTS
  TypeOK
  ListOrder
  FoundIsBuiltin
PROPERTIES
  LookupEnds
  ImplementsDirectory
