------------------------------ MODULE Console -------------------------------
(***************************************************************************)
(* The console: the command line and the menu behind it.                   *)
(*                                                                         *)
(* The UART and every debug client share one buffer, one menu and one      *)
(* open question (choice).  What a read means depends on its shape: a line *)
(* with its CR is a command, also in the menu; a CR or LF alone hands over *)
(* what has been gathered; anything else is gathered.  What the commands   *)
(* do to the settings is in SettingsStore, to the EST link in EstLink.     *)
(***************************************************************************)
EXTENDS Naturals, Sequences

CONSTANTS
    Digits,    \* the digits that are typed
    Query,     \* "?"
    OpenMenu,  \* "MENU$$$"
    Config,    \* "CONFIG: ... DEBUG:" with its password
    Word,      \* any other text
    MaxText    \* bound: pieces of text that wait

ASSUME ConsoleAssumption ==
    /\ Digits \subseteq 0..9 /\ MaxText \in Nat
    /\ Query \notin Digits /\ OpenMenu \notin Digits
    /\ Config \notin Digits /\ Word \notin Digits

Piece == Digits \cup {Query, OpenMenu, Config, Word}

VARIABLES
    menus,     \* __MENUS__
    debug,     \* __DEBUG__: the log is printed
    log,       \* __mdm_settings.debug
    choice,    \* the item whose answer is awaited, or 0
    buffer,    \* __buf_command
    fresh,     \* history: pieces of it that came since a question or the menu was shown
    lined      \* history: a line came since the menu was opened

console == <<menus, debug, log, choice, buffer, fresh, lined>>

\* menu: the items that ask for an answer, and those that act at once
Asking == (1..14) \cup (17..21)
Exit   == 0
DebugItem == 7

\* atoi
Number(text) ==
    LET value[k \in 0..Len(text)] == IF k = 0 THEN 0 ELSE 10 * value[k - 1] + text[k]
        ends == {k \in 0..Len(text) : \A i \in 1..k : text[i] \in Digits}
    IN value[CHOOSE k \in ends : \A j \in ends : j <= k]

StartsWithDigit(text) == text # <<>> /\ text[1] \in Digits

ConsoleInit ==
    /\ menus = FALSE /\ debug = TRUE /\ log \in BOOLEAN
    /\ choice = 0 /\ buffer = <<>> /\ fresh = 0 /\ lined = FALSE

\* Ql_Reset, and init_mdm with accept_settings
ConsoleBoots ==
    /\ menus' = FALSE /\ debug' = log /\ choice' = 0 /\ buffer' = <<>>
    /\ fresh' = 0 /\ lined' = FALSE /\ UNCHANGED log
-----------------------------------------------------------------------------
(* menu.c                                                                  *)

\* menu with no question open: ? shows the menu and stops the log, an item asks
\* its question, acts (15) or ends the menu; anything else is wrong.
MenuChooses(text) ==
    IF text # <<>> /\ text[1] = Query
    THEN debug' = FALSE /\ UNCHANGED <<menus, choice>>
    ELSE IF StartsWithDigit(text) /\ Number(text) = Exit
    THEN menus' = FALSE /\ debug' = log /\ UNCHANGED choice
    ELSE /\ choice' = IF StartsWithDigit(text) /\ Number(text) \in Asking
                      THEN Number(text) ELSE choice
         /\ UNCHANGED <<menus, debug>>

\* The handlers of the items: whatever the answer, valid, refused or ?, the
\* question is closed.
MenuAnswers(text) ==
    /\ choice' = 0
    /\ log' = IF choice = DebugItem /\ ~(text # <<>> /\ text[1] = Query) THEN Number(text) # 0 ELSE log
    /\ UNCHANGED <<menus, debug>>

\* Mutant: 0 ends the menu also when it is an answer.
MenuAlwaysExits(text) ==
    IF StartsWithDigit(text) /\ Number(text) = Exit
    THEN menus' = FALSE /\ debug' = log /\ UNCHANGED <<choice, log>>
    ELSE IF choice = 0 THEN MenuChooses(text) /\ UNCHANGED log ELSE MenuAnswers(text)

Menu(text) ==
    IF choice = 0 THEN MenuChooses(text) /\ UNCHANGED log ELSE MenuAnswers(text)
-----------------------------------------------------------------------------
(* utils.c                                                                 *)

Has(text, piece) == \E i \in DOMAIN text : text[i] = piece

\* MENU$$$ opens the menu unless it is open, and stops the log.
Opens(text) == Has(text, OpenMenu) /\ ~Has(text, Config) /\ ~menus

\* parce_command, but for the log
ParceCommand(text) ==
    /\ menus' = (menus \/ Opens(text))
    /\ choice' = IF Opens(text) THEN 0 ELSE choice
    /\ IF Has(text, Config) THEN log' \in BOOLEAN ELSE UNCHANGED log

\* Mutant: what the menu got stays in the buffer.
HandedOverKept == UNCHANGED buffer /\ fresh' = 0

HandedOver == buffer' = <<>> /\ fresh' = 0

\* fill_command_buffer
Gathers(piece) ==
    /\ Len(buffer) < MaxText
    /\ buffer' = Append(buffer, piece) /\ fresh' = fresh + 1
    /\ UNCHANGED <<menus, debug, log, choice, lined>>

\* A CR or LF with nothing before it: get_menu_console, or parce_command.
Enters ==
    /\ IF menus THEN Menu(buffer)
       ELSE ParceCommand(buffer) /\ debug' = (debug /\ ~Opens(buffer))
    /\ lined' = (lined /\ menus)
    /\ HandedOver

\* A line with its CR is a command, also while the menu is open.  The log stops
\* for it and then is as the settings say, also when the command was MENU$$$.
Line(piece) ==
    /\ ParceCommand(Append(buffer, piece)) /\ debug' = log'
    /\ lined' = TRUE
    /\ HandedOver

\* One read of the UART or of a debug client
ConsoleReads ==
    \/ \E piece \in Piece : Gathers(piece)
    \/ Enters
    \/ \E piece \in Piece \ (Digits \cup {Query}) : Line(piece)

\* A form of the web page (set_command): DEBUG= sets the setting alone, ? opens
\* the menu on the console.
WebForm ==
    \E on \in {log, FALSE, TRUE}, asks \in BOOLEAN :
        LET opens == asks /\ ~menus
        IN /\ log' = on
           /\ menus' = (menus \/ asks)
           /\ choice' = IF opens THEN 0 ELSE choice
           /\ debug' = (debug /\ ~opens)
           /\ fresh' = IF opens THEN 0 ELSE fresh
           /\ lined' = (lined /\ ~opens)
           /\ UNCHANGED buffer
-----------------------------------------------------------------------------
\* Types, and: the log stays out of the menu, unless a whole line was typed: it
\* is taken for a command, and the log comes on behind it.
ConsoleTypeOK ==
    /\ menus \in BOOLEAN /\ debug \in BOOLEAN /\ log \in BOOLEAN
    /\ choice \in Asking \cup {0}
    /\ buffer \in Seq(Piece) /\ Len(buffer) <= MaxText /\ fresh \in 0..MaxText
    /\ lined \in BOOLEAN
    /\ menus /\ debug => lined

\* A question is open only while the menu is: whatever opens it next starts with
\* the list of items, and cannot be taken for an answer.
QuestionsNeedMenu == choice # 0 => menus

\* What is handed to an open question was typed after it was asked.
AnswersFollowQuestion == choice # 0 => fresh = Len(buffer)
=============================================================================
