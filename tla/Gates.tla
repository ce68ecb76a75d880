--------------------------------- MODULE Gates ---------------------------------
(***************************************************************************)
(* The gates of src/bank-gates.c and scripts/make-hardware.js, and who     *)
(* calls what across them: the values of the constants of Banks in this    *)
(* program.  A call inside one bank needs no gate and is not listed.       *)
(***************************************************************************)
EXTENDS Banks

(* Which bank each gate enters.                                            *)
TapeGates == {"tapecopycmd", "tapecopy_report"}
SessionGates == {"session_run", "session_save", "session_restore", "session_basic"}
EditorGates == {"editstatus", "editsaving", "editcmd"}
TextGates == {"typeoptions", "typecmd", "findoptions", "findcmd", "runcmd", "help"}
CommandGates == {"dircmd", "copycmd", "delcmd", "attribcmd", "renamecmd"}
BlockGates == {"blockio", "rawopen", "drivetype", "tracksectors", "bam", "copyrel"}
DiskGates == {"volcmd", "labelcmd", "formatcmd", "diskinitcmd", "diskidcmd", "diskcopycmd"}
StartupGates == {"startupprompt", "startupcolor", "startupcharset", "bootsplash"}
InputGates == {"input", "rawedit"}
SettingGates == {"setcmd", "bootstart"}
LookupGates ==
    {"directory", "findfile", "preparewrite", "openreadtype", "openread", "openwrite", "scratch",
     "diroption", "dirdefaults"}
FontGates == {"charset_prepare"}

EDIT == 5
FILEUTIL == 6
FILEMGMT == 7
DISK == 8
BOOT == 9

AllGates ==
    TapeGates \cup SessionGates \cup EditorGates \cup TextGates \cup CommandGates \cup BlockGates
      \cup DiskGates \cup StartupGates \cup InputGates \cup SettingGates \cup LookupGates \cup FontGates

HomeBank ==
    [g \in AllGates |->
       CASE g \in EditorGates \cup InputGates -> EDIT
         [] g \in SessionGates \cup TextGates -> FILEUTIL
         [] g \in CommandGates \cup LookupGates -> FILEMGMT
         [] g \in BlockGates \cup DiskGates -> DISK
         [] g \in TapeGates \cup StartupGates \cup SettingGates -> BOOT
         [] g \in FontGates -> BANK_NONE]

-----------------------------------------------------------------------------
(* Who calls whom, by the file of the caller.                              *)
ResidentRoutines == {"main", "execute", "yesno", "volumeheader", "runbatch"}

MainCalls ==
    {"bootsplash", "bootstart", "session_restore", "tapecopy_report", "startupcharset", "startupprompt",
     "startupcolor", "input", "execute", "session_save", "yesno", "session_basic"}

CommandCalls ==
    {"help", "setcmd", "volcmd", "copycmd", "delcmd", "dircmd", "diskcopycmd", "editcmd", "formatcmd",
     "labelcmd", "typecmd", "renamecmd", "runcmd", "diskidcmd", "findcmd", "diskinitcmd", "tapecopycmd",
     "attribcmd", "bootsplash"}
RedirectCalls == {"findoptions", "typeoptions", "findfile", "scratch"}

EditorCalls(r) ==
    CASE r = "editcmd" -> {"findfile", "openreadtype", "yesno", "preparewrite", "openwrite"}
      [] r = "input" -> {"directory"}
      [] OTHER -> {}

TextCalls(r) ==
    CASE r \in {"typecmd", "findcmd"} -> {"openread"}
      [] r = "runcmd" -> {"runbatch", "findfile", "session_run"}
      [] r = "session_run" -> {"yesno"}
      [] OTHER -> {}

FileCalls(r) ==
    CASE r = "copycmd" -> {"copyrel", "drivetype", "editsaving", "yesno"}
      [] r = "delcmd" -> {"yesno", "drivetype"}
      [] r = "attribcmd" -> {"bam", "rawopen", "tracksectors", "blockio", "drivetype"}
      [] r = "dircmd" -> {"volumeheader", "drivetype"}
      [] r = "preparewrite" -> {"editsaving", "yesno", "drivetype"}
      [] r \in {"renamecmd", "directory", "findfile", "openread"} -> {"drivetype"}
      [] OTHER -> {}

DiskCalls(r) ==
    CASE r = "copyrel" -> {"preparewrite"}
      [] r = "volcmd" -> {"directory", "volumeheader"}
      [] r = "labelcmd" -> {"directory", "input"}
      [] r = "formatcmd" -> {"yesno", "input"}
      [] r = "diskidcmd" -> {"input"}
      [] r = "diskcopycmd" -> {"yesno"}
      [] OTHER -> {}

StartupCalls(r) ==
    CASE r = "bootsplash" -> {"drivetype"}
      [] r = "setcmd" -> {"dirdefaults"}
      [] r = "bootstart" -> {"charset_prepare", "findfile", "runbatch"}
      [] r \in TapeGates -> {"session_save"}
      [] OTHER -> {}

SharedCalls(r) ==
    CASE r = "yesno" -> {"editstatus"}
      [] r = "volumeheader" -> {"bam"}
      [] r = "runbatch" -> {"openread"}
      [] OTHER -> {}

CallGraph ==
    [r \in AllGates \cup ResidentRoutines |->
       CASE r = "main" -> MainCalls
         [] r = "execute" -> CommandCalls \cup RedirectCalls
         [] OTHER -> EditorCalls(r) \cup TextCalls(r) \cup FileCalls(r) \cup DiskCalls(r)
                       \cup StartupCalls(r) \cup SharedCalls(r)]

(* Who reaches cart_call() without a gate in between.                      *)
DriverCallers ==
    SettingGates \cup SessionGates \cup LookupGates \cup CommandGates
      \cup {"typecmd", "findcmd", "editcmd", "runcmd", "help", "volcmd", "startupcharset", "execute", "runbatch"}
================================================================================
