---------------------------- MODULE KeyDecoding ----------------------------
(***************************************************************************)
(* From the bytes of the terminal to the keys of the user                  *)
(* (input_keys.go, startStdinReader in input.go): escape sequences, which  *)
(* a plain escape key is told from by the time that passes after it,       *)
(* encoded keys, bracketed pastes.  A control key that comes encoded is    *)
(* put back into the channel, by a goroutine of its own, as the byte it    *)
(* stands for.  Parameters of a sequence are one token where only the      *)
(* whole of them matters.                                                  *)
(***************************************************************************)
EXTENDS Naturals, Sequences, FiniteSets

CONSTANTS
  PastedTexts,  \* texts of pastes: sequences of tokens
  MaxKeys       \* bound: keys the user presses

ASSUME KeysAssumption == MaxKeys \in Nat /\ PastedTexts \subseteq Seq(STRING)

VARIABLES
  pressed,    \* the keys, in order
  wire,       \* tokens on their way from the terminal, each with its key
  stdinCh,    \* App.stdinCh
  flying,     \* control keys whose goroutine has not sent yet
  state,      \* where the handler waits for the next byte
  params,     \* bytes of a sequence so far
  content,    \* a paste so far
  effects,    \* history: what was done
  disturbed   \* history: keys got into each other, or one was cut by the time-out

keyVars == <<pressed, wire, stdinCh, flying, state, params, content, effects, disturbed>>

ESC == "ESC"  CR == "CR"  CtrlA == "^A"
Finals == {"A", "~", "u", "x", "[", "O"}

Paste(text) == [does |-> "paste", text |-> text]
Do(what) == [does |-> what, text |-> <<>>]
InsertText(token) == [does |-> "insert", text |-> <<token>>]

\* A key: what it is for, and what the terminal sends.
Key(effect, sends) == [effect |-> effect, sends |-> sends]
Keyboard ==
  { Key(InsertText("x"), <<"x">>), Key(InsertText("x"), <<ESC, "[", "xCode", "u">>),
    Key(Do("home"), <<CtrlA>>), Key(Do("home"), <<ESC, "[", "ctrlCode", "u">>),
    Key(Do("up"), <<ESC, "[", "A">>), Key(Do("up"), <<ESC, "O", "A">>),
    Key(Do("delete"), <<ESC, "[", "3", "~">>), Key(Do("nothing"), <<ESC, "[", "1", "~">>),
    Key(InsertText("newline"), <<ESC, CR>>), Key(Do("enter"), <<CR>>), Key(Do("escape"), <<ESC>>) }
  \cup {Key(Paste(t), <<ESC, "[", "2", "0", "0", "~">> \o t \o <<ESC, "[", "2", "0", "1", "~">>)
          : t \in PastedTexts}

States == {"ground", "escape", "ss3", "csi", "paste", "pasteEscape", "pasteCsi"}

KeysTypeOK ==
  /\ pressed \in Seq(Keyboard) /\ Len(pressed) <= MaxKeys
  /\ \A i \in DOMAIN stdinCh : stdinCh[i].key \in DOMAIN pressed
  /\ flying \subseteq DOMAIN pressed /\ state \in States
  /\ (params # <<>> => state \in {"csi", "pasteCsi"}) /\ (state = "pasteCsi" => Len(params) <= 3)
  /\ disturbed \in BOOLEAN

KeysInit ==
  /\ pressed = <<>> /\ wire = <<>> /\ stdinCh = <<>> /\ flying = {}
  /\ state = "ground" /\ params = <<>> /\ content = <<>>
  /\ effects = <<>> /\ disturbed = FALSE

-----------------------------------------------------------------------------
(* The terminal and the goroutines                                          *)

HandlerVars == <<state, params, content, effects>>

Press ==
  /\ Len(pressed) < MaxKeys
  /\ \E k \in Keyboard :
       /\ pressed' = Append(pressed, k)
       /\ wire' = wire \o [i \in DOMAIN k.sends |-> [token |-> k.sends[i], key |-> Len(pressed'), nth |-> i]]
  /\ UNCHANGED <<stdinCh, flying, HandlerVars, disturbed>>

\* The reader's goroutine.
ReadStdin ==
  /\ wire # <<>>
  /\ stdinCh' = Append(stdinCh, Head(wire)) /\ wire' = Tail(wire)
  /\ UNCHANGED <<pressed, flying, HandlerVars, disturbed>>

\* The goroutine of an encoded control key: its byte comes after what is in the channel.
SendControlByte ==
  /\ \E k \in flying : /\ stdinCh' = Append(stdinCh, [token |-> CtrlA, key |-> k, nth |-> 1])
                       /\ flying' = flying \ {k}
  /\ disturbed' = (disturbed \/ stdinCh # <<>> \/ state # "ground")
  /\ UNCHANGED <<pressed, wire, HandlerVars>>

-----------------------------------------------------------------------------
(* The handler                                                              *)

Done(effect) == effects' = Append(effects, effect)
Waits(where, with) == state' = where /\ params' = with
Finished == Waits("ground", <<>>)
Stays == UNCHANGED <<content, flying, effects>>

\* handleByte: what is no control byte is text, the rest of a sequence that was cut too.
Ground(b) ==
  /\ state = "ground"
  /\ IF b.token = ESC THEN Waits("escape", <<>>) /\ UNCHANGED effects
       ELSE /\ Finished
            /\ Done(CASE b.token = CR -> Do("enter") [] b.token = CtrlA -> Do("home")
                      [] b.token \notin {CR, CtrlA} -> InsertText(b.token))
  /\ UNCHANGED <<content, flying>>

\* handleEscapeSequence.  Any other byte is swallowed with a plain escape.
Escape(b) ==
  /\ state = "escape"
  /\ CASE b.token = "[" -> Waits("csi", <<>>) /\ UNCHANGED effects
       [] b.token = "O" -> Waits("ss3", <<>>) /\ UNCHANGED effects
       [] b.token = CR -> Finished /\ Done(InsertText("newline"))
       [] b.token = ESC -> Finished /\ effects' = effects \o <<Do("escape"), Do("escape")>>
       [] b.token \notin {"[", "O", CR, ESC} -> Finished /\ Done(Do("escape"))
  /\ UNCHANGED <<content, flying>>

\* No byte for 50 ms.
EscapeAlone ==
  /\ state = "escape" /\ stdinCh = <<>>
  /\ Finished /\ Done(Do("escape"))
  /\ disturbed' = (disturbed \/ (wire # <<>> /\ Head(wire).nth > 1))
  /\ UNCHANGED <<pressed, wire, stdinCh, content, flying>>

NavKey(token) == Do(IF token = "A" THEN "up" ELSE "nothing")
Ss3(b) == /\ state = "ss3" /\ Finished /\ Done(NavKey(b.token))
          /\ UNCHANGED <<content, flying>>

\* readCSISequence takes bytes up to a final one, whatever they are.
CsiParameter(b) == /\ state = "csi" /\ b.token \notin Finals
                   /\ Waits("csi", Append(params, b.token)) /\ Stays

\* Not the code: a paste begins with what an earlier one has left.
CsiKeepsContent(b) ==
  /\ state = "csi" /\ b.token = "~" /\ params = <<"2", "0", "0">>
  /\ Waits("paste", <<>>)
  /\ UNCHANGED <<content, flying, effects>>

CsiPaste(b) ==
  /\ state = "csi" /\ b.token = "~" /\ params = <<"2", "0", "0">>
  /\ Waits("paste", <<>>) /\ content' = <<>>
  /\ UNCHANGED <<flying, effects>>
CsiControl(b) ==
  /\ state = "csi" /\ b.token \in {"u", "~"} /\ params = <<"ctrlCode">>
  /\ Finished /\ flying' = flying \cup {b.key}
  /\ UNCHANGED <<content, effects>>
CsiKey(b) ==
  /\ state = "csi" /\ b.token \in Finals
  /\ ~(b.token = "~" /\ params = <<"2", "0", "0">>)
  /\ ~(b.token \in {"u", "~"} /\ params = <<"ctrlCode">>)
  /\ Finished
  /\ Done(IF b.token = "~" /\ params = <<"3">> THEN Do("delete")
          ELSE IF b.token \in {"u", "~"} /\ params = <<"xCode">> THEN InsertText("x")
          ELSE IF b.token \notin {"u", "~"} /\ params = <<>> THEN NavKey(b.token) ELSE Do("nothing"))
  /\ UNCHANGED <<content, flying>>

\* readBracketedPaste.  After an escape and a bracket, four bytes are taken at once.
PasteText(b) ==
  /\ state = "paste"
  /\ IF b.token = ESC THEN Waits("pasteEscape", <<>>) /\ UNCHANGED content
       ELSE Waits("paste", <<>>) /\ content' = Append(content, b.token)
  /\ UNCHANGED <<flying, effects>>
PasteEscape(b) ==
  /\ state = "pasteEscape"
  /\ IF b.token = "[" THEN Waits("pasteCsi", <<>>) /\ UNCHANGED content
       ELSE Waits("paste", <<>>) /\ content' = content \o <<ESC, b.token>>
  /\ UNCHANGED <<flying, effects>>

EndMarker == <<"2", "0", "1", "~">>

\* Not the code: the bytes that were no end marker are dropped.
PasteCsiDrops(b) ==
  /\ state = "pasteCsi"
  /\ IF Len(params) < 3 THEN Waits("pasteCsi", Append(params, b.token)) /\ UNCHANGED effects
       ELSE IF Append(params, b.token) = EndMarker
         THEN Finished /\ Done(Paste(content))
         ELSE Waits("paste", <<>>) /\ UNCHANGED effects
  /\ UNCHANGED <<content, flying>>

PasteCsi(b) ==
  /\ state = "pasteCsi"
  /\ CASE Len(params) < 3 -> /\ Waits("pasteCsi", Append(params, b.token))
                             /\ UNCHANGED <<content, effects>>
       [] Len(params) >= 3 /\ Append(params, b.token) = EndMarker ->
            /\ Finished /\ Done(Paste(content)) /\ UNCHANGED content
       [] Len(params) >= 3 /\ Append(params, b.token) # EndMarker ->
            /\ Waits("paste", <<>>) /\ content' = content \o <<ESC, "[">> \o Append(params, b.token)
            /\ UNCHANGED effects
  /\ UNCHANGED flying

\* Keys pressed one after the other are not told apart when the second is there within
\* the time-out of the first.
HandleByte ==
  /\ stdinCh # <<>> /\ stdinCh' = Tail(stdinCh)
  /\ LET b == Head(stdinCh)
     IN /\ \/ Ground(b) \/ Escape(b) \/ Ss3(b)
           \/ CsiParameter(b) \/ CsiPaste(b) \/ CsiControl(b) \/ CsiKey(b)
           \/ PasteText(b) \/ PasteEscape(b) \/ PasteCsi(b)
        /\ disturbed' = (disturbed \/ flying # {} \/ (state = "escape" /\ b.nth = 1))
  /\ UNCHANGED <<pressed, wire>>

KeysNext == Press \/ ReadStdin \/ SendControlByte \/ EscapeAlone \/ HandleByte

KeysSpec == KeysInit /\ [][KeysNext]_keyVars

-----------------------------------------------------------------------------
\* The text ends so soon after an escape that readBracketedPaste takes the beginning of the
\* end marker for the rest of a sequence.
CutsMarker(text) ==
  \E i \in DOMAIN text :
    text[i] = ESC /\ (i = Len(text) \/ (text[i + 1] = "[" /\ i + 5 > Len(text)))
\* The text has an end marker of its own, which nothing tells from that of the terminal.
HasMarker(text) ==
  \E i \in 1..Len(text) - 5 : text[i] = ESC /\ text[i + 1] = "[" /\ SubSeq(text, i + 2, i + 5) = EndMarker

(* When keys do not run into each other, each has the effect it is for,     *)
(* once, in the order of the keys, however it was encoded; a paste is one   *)
(* text, and nothing of a sequence becomes input, as long as no pasted text *)
(* swallows the end marker or has one (handleByte, handleEscapeSequence,    *)
(* readCSISequence, readBracketedPaste).                                    *)
DecodedAsPressed ==
  /\ wire = <<>> /\ stdinCh = <<>> /\ flying = {} /\ state = "ground" /\ ~disturbed
  /\ \A i \in DOMAIN pressed : ~CutsMarker(pressed[i].effect.text) /\ ~HasMarker(pressed[i].effect.text)
  => effects = [i \in DOMAIN pressed |-> pressed[i].effect]

(* NOT KEPT by the code.  "readBracketedPaste reads paste content until the *)
(* end marker ESC [ 2 0 1 ~." (input_keys.go:795)  A pasted sequence that   *)
(* is shorter than the marker, such as one that sets a colour, takes the    *)
(* beginning of the marker with it, and the keys that follow are read into  *)
(* the paste.                                                               *)
PasteEndsAtMarker ==
  state = "paste" /\ ~disturbed /\ stdinCh # <<>> => pressed[Head(stdinCh).key].effect.does = "paste"

(* NOT KEPT by the code.  "This ensures that unknown or unexpected CSI      *)
(* sequences are fully consumed and never leak trailing bytes into the      *)
(* input buffer" (input_keys.go:368)  A control byte that is put back       *)
(* between the bytes of a sequence is taken for a part of it.               *)
NothingLeaks ==
  \A i \in DOMAIN effects :
    effects[i].does = "insert" => effects[i] \in {InsertText("x"), InsertText("newline")}

(* Bytes become keys again.                                                 *)
KeysInv == KeysTypeOK /\ DecodedAsPressed

=============================================================================
