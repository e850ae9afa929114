CONSTANT MENUS <- MCMenus
SPECIFICATION Spec
INVARIANTS
  TypeOK
  EdgesAgree
  SameMeaning
  RejectsUnsupported
