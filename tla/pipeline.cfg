SPECIFICATION Spec
CONSTANTS
  a = a
  b = b
  old = old
  new = new
  nat = nat
  acl = acl
  NoConfig = NoConfig
  Callers = {a, b}
  Configs = {old, new}
  Names = {nat, acl}
  Ids <- MCIds
  MaxEntries = 1
SYMMETRY Symmetry
INVARIANTS
  TypeOK
  P4InfoAsDue
  EntryWhereMeant
