SPECIFICATION Spec
CONSTANTS
  m1 = m1
  m2 = m2
  contextify = contextify
  report = report
  natives = natives
  other = other
  Null = Null
  Modules = {m1, m2}
  Names = {contextify, report, natives, other}
  NameOf <- BuiltinNameOf
  FlagsOf <- BuiltinFlagsOf
  Builtins <- BuiltinModules
  NativesName = natives
  Ids = {loader, console}
  LoaderId = loader
  MaxCalls = 2
INVARIANTS
  TypeOK
  
  BindingIsModule
  LoadListExact
  RequireIsShared
PROPERTIES
  ImplementsTable
  CallsReturn
