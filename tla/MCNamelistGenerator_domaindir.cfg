\* Stream s2 comes from a user stream file with a subdirectory in its domain file name.
CONSTANTS
  Vars <- MC_Vars
  VarOrder <- MC_VarOrder
  Group <- MC_Group
  Size <- MC_Size
  CharVars <- MC_CharVars
  InputPathname <- MC_InputPathname
  DefaultEntries <- MC_DefaultEntries
  PerStreamVars <- MC_PerStreamVars
  HasDefault <- MC_HasDefault
  Defaults <- MC_Defaults
  Env <- MC_Env
  Instances = {"i1", "i2"}
  InFiles <- MC_InFiles
  SkipChoices = {{}, {"modelio"}}
  ConvertKeep = {"UNSET", "idmap", "idmap_ignore", "unset", "null", "create_mesh"}
  DataListSkip = {"UNSET", "idmap", "idmap_ignore"}
  AddDefaultCalls <- MC_AddDefaultCalls
  SetValueCalls <- MC_SetValueCalls
  GroupArgs = {"modelio"}
  StreamCfg <- MC_StreamCfgUser
  GlcNec = 1
  MaxCalls = 4
SPECIFICATION Spec
INVARIANT DomainLinesNameFiles
