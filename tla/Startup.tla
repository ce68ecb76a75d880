-------------------------------- MODULE Startup --------------------------------
(***************************************************************************)
(* From power-on to the prompt, and the settings in between (src/boot.c,   *)
(* main() of src/mcsdos.c): the search for AUTOEXEC.BAT, its lines, the    *)
(* packed environment SET writes, and the prompt, colours and font that    *)
(* are applied once the batch has unwound; REBOOT; programs and the        *)
(* session that brings the shell back.                                     *)
(*                                                                         *)
(* The environment is modelled byte for byte.  A colour triple, a font and *)
(* a .CPI file are what they mean; the bitmaps are model values.           *)
(***************************************************************************)
EXTENDS Integers, Sequences, FiniteSets

CONSTANTS
    Names, Values,   \* what SET is given: sequences of characters
    Equals, Nul,     \* two characters
    ENVSIZE,
    PROMPT, COLOR, CHARSET,  \* names the shell knows
    Unaccepted,         \* pairs of a name and a value SET does not take
    ColorOf,         \* value of COLOR -> three colours, where it is well-formed
    Slots,           \* the glyphs a font file may replace
    FontOf,          \* value of CHARSET -> font file
    Machines,        \* drives BOOTDRV names, what is on them
    Bitmaps,         \* of glyphs
    TURNS            \* bound: commands at the prompt

(* Lines of AUTOEXEC.BAT, or of the prompt. *)
Commands == [op : {"set"}, name : Names, value : Values] \cup [op : {"reboot", "run"}]
EnvironmentBytes == {Equals, Nul} \cup UNION {{s[i] : i \in DOMAIN s} : s \in Names \cup Values}

ASSUME StartupAssumption ==
    /\ \A v \in DOMAIN FontOf : FontOf[v].entries \in Seq([slot : Nat, glyph : Bitmaps])
    /\ Equals # Nul /\ Names \cup Values \subseteq Seq(EnvironmentBytes)
    /\ \A n \in Names : \A i \in DOMAIN n : n[i] \notin {Equals, Nul}
    /\ \A v \in Values : \A i \in DOMAIN v : v[i] # Nul
    /\ \A m \in Machines : \A d \in DOMAIN m.autoexec : m.autoexec[d] \in Seq(Commands)

VARIABLES
    shell,        \* "off", "search", "batch", "charset", "settings", "prompt", "gone" (a program runs)
    machine,
    bootdev,      \* index of the next drive to search
    startdrive,
    lines,        \* of AUTOEXEC.BAT that are left
    environment,  \* the bytes in use
    envready,
    said,         \* SET's answer, and what was too much
    prompttext, colours,
    staged, active,  \* fonts: slot -> glyph
    cpi,          \* entries of the font file read so far
    session,      \* what was saved: a record, or NoSession
    fresh,        \* history: at the prompt, and nothing was done since startup
    turns

startVars == <<shell, machine, bootdev, startdrive, lines, environment, envready, said, prompttext, colours,
               staged, active, cpi, session, fresh, turns>>

NoSession == [valid |-> FALSE]
-----------------------------------------------------------------------------
(* The environment: NAME=value, each with a terminator                     *)

Entries == {1} \cup {p + 1 : p \in {q \in 1..Len(environment) : environment[q] = Nul}}
Terminator(p) == CHOOSE q \in p..Len(environment) :
                    environment[q] = Nul /\ \A r \in p..(q - 1) : environment[r] # Nul

(* Where the entry of a name starts; 0: nowhere.                           *)
EntryOf_Prefix(name) ==
    LET found == {p \in Entries : /\ p + Len(name) <= Len(environment)
                                  /\ SubSeq(environment, p, p + Len(name) - 1) = name}
    IN  IF found = {} THEN 0 ELSE CHOOSE p \in found : \A q \in found : p <= q
EntryOf(name) ==
    LET found == {p \in Entries : /\ p + Len(name) <= Len(environment)
                                  /\ SubSeq(environment, p, p + Len(name) - 1) = name
                                  /\ environment[p + Len(name)] = Equals}
    IN  IF found = {} THEN 0 ELSE CHOOSE p \in found : \A q \in found : p <= q

Defined(name) == EntryOf(name) # 0
envget(name) == SubSeq(environment, EntryOf(name) + Len(name) + 1, Terminator(EntryOf(name)) - 1)

(* What an entry takes up, and the rest once it is gone.                   *)
SizeOf(name) == IF Defined(name) THEN Len(envget(name)) + Len(name) + 2 ELSE 0
RestOf(name) ==
    IF Defined(name)
      THEN SubSeq(environment, 1, EntryOf(name) - 1)
             \o SubSeq(environment, EntryOf(name) + SizeOf(name), Len(environment))
      ELSE environment

(* The replacement and the space for it are checked before the old entry   *)
(* goes.                                                                   *)
Fitting_Anew(name, size) == Len(environment) + size <= ENVSIZE
Fitting(name, size) == Len(environment) - SizeOf(name) + size <= ENVSIZE

setcmd(name, value) ==
    LET entry == IF value = <<>> THEN <<>> ELSE name \o <<Equals>> \o value \o <<Nul>>
    IN  IF <<name, value>> \in Unaccepted THEN said' = <<"invalid">> /\ UNCHANGED environment
        ELSE IF ~Fitting(name, Len(entry)) THEN said' = <<"full", name, value>> /\ UNCHANGED environment
        ELSE said' = <<"set">> /\ environment' = RestOf(name) \o entry

-----------------------------------------------------------------------------
(* Starting                                                                *)

Rom == [s \in Slots |-> "rom"]
Grey == <<15, 0, 0>>

charset_prepare_Half == active' = Rom /\ UNCHANGED staged
charset_prepare == active' = Rom /\ staged' = Rom

readyAtStart_Kept == envready
readyAtStart == FALSE

(* What bootstart() resets before it searches.                             *)
Reset ==
    /\ environment' = <<>> /\ said' = <<>> /\ envready' = readyAtStart
    /\ prompttext' = "default" /\ colours' = Grey /\ lines' = <<>> /\ cpi' = 0
    /\ charset_prepare

(* Nothing is searched when RESTORE was pressed on the boot screen, when   *)
(* CONFIG.SYS forbids the batch, or when the cartridge cannot be mounted.  *)
bootstart(dev) ==
    /\ Reset
    /\ \/ shell' = "search" /\ bootdev' = 1 /\ startdrive' = 0
       \/ shell' = "batch" /\ startdrive' = dev /\ UNCHANGED bootdev

PowerOn ==
    /\ shell \in {"off", "gone"}
    /\ session' = NoSession /\ fresh' = FALSE
    /\ bootstart(0)
    /\ UNCHANGED <<machine, turns>>

(* One drive of BOOTDRV: the first that has AUTOEXEC.BAT is the startup    *)
(* drive, even when the batch cannot be read.  A drive may be off, or its  *)
(* directory unreadable.                                                   *)
Search ==
    /\ shell = "search"
    /\ IF bootdev > Len(machine.order)
         THEN shell' = "batch" /\ UNCHANGED <<bootdev, startdrive, lines>>
         ELSE \/ bootdev' = bootdev + 1 /\ UNCHANGED <<shell, startdrive, lines>>
              \/ /\ machine.order[bootdev] \in DOMAIN machine.autoexec
                 /\ startdrive' = machine.order[bootdev] /\ shell' = "batch" /\ UNCHANGED bootdev
                 /\ lines' \in {machine.autoexec[startdrive'], <<>>}
    /\ UNCHANGED <<machine, environment, envready, said, prompttext, colours, staged, active, cpi,
                   session, fresh, turns>>

-----------------------------------------------------------------------------
(* Commands, of the batch and of the prompt                                *)

(* RUN and BASIC save the session first.  When that fails the user stays,  *)
(* or goes on and will not come back to what there was.                    *)
Saved == [valid |-> TRUE, environment |-> environment, envready |-> envready, prompttext |-> prompttext,
          colours |-> colours, active |-> active]
RunProgram ==
    /\ \/ shell' = "gone" /\ session' \in {Saved, NoSession}
       \/ UNCHANGED shell /\ session' = NoSession
    /\ UNCHANGED <<bootdev, startdrive, environment, envready, said, prompttext, colours,
                   staged, active, cpi>>

Perform(command) ==
    \/ /\ command.op = "set" /\ setcmd(command.name, command.value)
       /\ UNCHANGED <<shell, bootdev, startdrive, envready, prompttext, colours, staged, active, cpi, session>>
    \/ command.op = "reboot" /\ bootstart(startdrive) /\ UNCHANGED session
    \/ command.op = "run" /\ RunProgram

BatchLine ==
    /\ shell = "batch" /\ lines # <<>>
    /\ Perform(lines[1])
    /\ lines[1].op # "reboot" => lines' = Tail(lines)
    /\ UNCHANGED <<machine, fresh, turns>>

StopBatch ==
    /\ shell = "batch" /\ lines # <<>>
    /\ lines' = <<>>
    /\ UNCHANGED <<shell, machine, bootdev, startdrive, environment, envready, said, prompttext, colours,
                   staged, active, cpi, session, fresh, turns>>

PromptCommand ==
    /\ shell = "prompt" /\ turns < TURNS
    /\ turns' = turns + 1 /\ fresh' = FALSE
    /\ \E command \in Commands :
         Perform(command) /\ (command.op # "reboot" => UNCHANGED lines)
    /\ UNCHANGED machine

-----------------------------------------------------------------------------
(* The settings, once the batch has unwound                                *)

AfterBatch ==
    /\ shell = "batch" /\ lines = <<>>
    /\ envready' = TRUE
    /\ shell' = IF Defined(CHARSET) /\ envget(CHARSET) \in DOMAIN FontOf THEN "charset" ELSE "settings"
    /\ cpi' = 0
    /\ UNCHANGED <<machine, bootdev, startdrive, lines, environment, said, prompttext, colours,
                   staged, active, session, fresh, turns>>

Font == FontOf[envget(CHARSET)]

(* startupcharset(): one entry of the file is read, checked and staged.    *)
StageGlyph ==
    /\ shell = "charset" /\ startdrive \in Font.drives /\ cpi < Len(Font.entries)
    /\ cpi' = cpi + 1
    /\ LET entry == Font.entries[cpi + 1]
       IN  IF entry.slot \in Slots /\ \A k \in 1..cpi : Font.entries[k].slot < entry.slot
             THEN staged' = [staged EXCEPT ![entry.slot] = entry.glyph] /\ UNCHANGED shell
             ELSE shell' = "settings" /\ UNCHANGED staged
    /\ UNCHANGED <<machine, bootdev, startdrive, lines, environment, envready, said, prompttext, colours,
                   active, session, fresh, turns>>

(* The sum and the end of the file are checked before the font is shown.   *)
Whole_Unchecked == TRUE
Whole == Font.sound

CommitCharset ==
    /\ shell = "charset" /\ startdrive \in Font.drives /\ cpi = Len(Font.entries)
    /\ shell' = "settings"
    /\ active' = IF Whole THEN staged ELSE active
    /\ UNCHANGED <<machine, bootdev, startdrive, lines, environment, envready, said, prompttext, colours,
                   staged, cpi, session, fresh, turns>>

(* The file is not on the startup drive, or reading stops short.           *)
CharsetFails ==
    /\ shell = "charset"
    /\ shell' = "settings"
    /\ UNCHANGED <<machine, bootdev, startdrive, lines, environment, envready, said, prompttext, colours,
                   staged, active, cpi, session, fresh, turns>>

(* startupprompt(); startupcolor(): all three colours or none.             *)
ApplySettings ==
    /\ shell = "settings"
    /\ shell' = "prompt" /\ fresh' = TRUE
    /\ prompttext' = IF Defined(PROMPT) THEN envget(PROMPT) ELSE prompttext
    /\ colours' = IF Defined(COLOR) /\ envget(COLOR) \in DOMAIN ColorOf THEN ColorOf[envget(COLOR)] ELSE colours
    /\ UNCHANGED <<machine, bootdev, startdrive, lines, environment, envready, said,
                   staged, active, cpi, session, turns>>

-----------------------------------------------------------------------------
(* A program ends: the shell starts again, without its startup files, and  *)
(* takes back what it saved; when it cannot, it starts with defaults.      *)
Resume ==
    /\ shell = "gone"
    /\ shell' = "prompt"
    /\ \/ /\ session.valid
          /\ environment' = session.environment /\ envready' = session.envready
          /\ prompttext' = session.prompttext /\ colours' = session.colours
          /\ active' = session.active /\ staged' = Rom /\ UNCHANGED said
       \/ /\ environment' = <<>> /\ envready' = TRUE /\ said' = <<>>
          /\ prompttext' = "default" /\ colours' = Grey /\ charset_prepare
    /\ lines' = <<>> /\ cpi' = 0 /\ startdrive' = 0
    /\ UNCHANGED <<machine, bootdev, session, fresh, turns>>

StartInit ==
    /\ shell = "off" /\ machine \in Machines /\ bootdev = 1 /\ startdrive = 0 /\ lines = <<>>
    /\ environment = <<>> /\ envready = FALSE /\ said = <<>> /\ prompttext = "default" /\ colours = Grey
    /\ staged = [s \in Slots |-> "none"] /\ active = staged /\ cpi = 0 /\ session = NoSession /\ fresh = FALSE /\ turns = 0

StartNext ==
    \/ PowerOn \/ Search \/ BatchLine \/ StopBatch \/ PromptCommand
    \/ AfterBatch \/ StageGlyph \/ CommitCharset \/ CharsetFails \/ ApplySettings \/ Resume

StartSpec == StartInit /\ [][StartNext]_startVars
-----------------------------------------------------------------------------
(***************************************************************************)
(* Properties                                                              *)
(***************************************************************************)

(* The packed bytes as a map.                                              *)
MapOf(bytes) ==
    LET starts == {p \in 1..Len(bytes) : p = 1 \/ bytes[p - 1] = Nul}
        text(p) == SubSeq(bytes, p, (CHOOSE q \in p..Len(bytes) :
                                       bytes[q] = Nul /\ \A r \in p..(q - 1) : bytes[r] # Nul) - 1)
        split(t) == CHOOSE q \in 1..Len(t) : t[q] = Equals /\ \A r \in 1..(q - 1) : t[r] # Equals
        name(p) == SubSeq(text(p), 1, split(text(p)) - 1)
    IN  [n \in {name(p) : p \in starts} |->
           LET p == CHOOSE p \in starts : name(p) = n IN SubSeq(text(p), split(text(p)) + 1, Len(text(p)))]

(* boot.c:373, core.c:417: the packed bytes are a map from names to        *)
(* values.  SET replaces, adds and removes what it names and nothing else, *)
(* whatever other names begin alike, and says it is full only when the     *)
(* new value would not fit in place of the old one.                        *)
Environment ==
    INSTANCE Variables
      WITH values <- MapOf(environment), answer <- said,
           kept <- IF session.valid THEN MapOf(session.environment) ELSE MapOf(<<>>)
EnvironmentIsMap == Environment!Spec

Patched(file) ==
    [s \in Slots |->
       LET at == {k \in DOMAIN file.entries : file.entries[k].slot = s}
       IN  IF at = {} THEN "rom" ELSE file.entries[CHOOSE k \in at : TRUE].glyph]
Ordered(file) ==
    \A k \in DOMAIN file.entries :
      file.entries[k].slot \in Slots /\ \A l \in 1..(k - 1) : file.entries[l].slot < file.entries[k].slot

(* boot.c:227-233: what is shown is the font of the ROM or that of one     *)
(* file that was read to its end and found sound, whatever a file that was *)
(* not left behind, before or after a restart.                             *)
FontIsWhole ==
    shell # "off" =>
      active = Rom \/ \E v \in DOMAIN FontOf :
                        FontOf[v].sound /\ Ordered(FontOf[v]) /\ active = Patched(FontOf[v])

(* mcsdos.c:54-60, session.c:103: the settings are out of force while      *)
(* AUTOEXEC.BAT runs and in force at the prompt that follows, as the       *)
(* environment has them.  A program that AUTOEXEC.BAT runs comes back to a *)
(* prompt without any of them.                                             *)
SettingsInForce ==
    /\ shell \in {"search", "batch"} => ~envready
    /\ shell = "prompt" /\ ~envready => prompttext = "default" /\ colours = Grey /\ active = Rom
    /\ fresh =>
         /\ envready
         /\ prompttext = IF Defined(PROMPT) THEN envget(PROMPT) ELSE "default"
         /\ colours = IF Defined(COLOR) /\ envget(COLOR) \in DOMAIN ColorOf THEN ColorOf[envget(COLOR)] ELSE Grey
================================================================================
