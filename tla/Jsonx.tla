-------------------------------- MODULE Jsonx --------------------------------
(***************************************************************************)
(* The scanners of config.py, _strip_comments and then                     *)
(* _strip_trailing_commas on what it returns. A step is one turn of the    *)
(* outer loop of either. The lists out of the code hold characters; here   *)
(* they hold the places in text where those characters stand, so that the  *)
(* properties can say which of them were kept.                             *)
(*                                                                         *)
(* Definitions introduced by "Slip" are wrong variants of the definition   *)
(* that follows. Nothing uses them; put in its place, each makes a         *)
(* property fail, which shows that the property can.                       *)
(***************************************************************************)
EXTENDS Naturals, SequencesExt

CONSTANTS
  Characters,                       \* what texts are made of, among it:
  Quote, Backslash, Hash, Slash, Star, Newline, Comma,
  Blanks,                           \* " \t\r\n",
  Closers,                          \* and "}]"
  Texts                             \* inputs of parse_jsonx to consider

ASSUME JsonxAssumption ==
  /\ Texts \subseteq Seq(Characters)
  /\ IsInjective(<<Quote, Backslash, Hash, Slash, Star, Newline, Comma>>)
  /\ Newline \in Blanks

VARIABLES
  text,       \* the text to parse
  scan,       \* "comments", "commas", or "over"
  source,     \* the argument of the scanner that runs
  at,         \* its variables: i,
  in_string,
  escaped,
  out

jsonxVars == <<text, scan, source, at, in_string, escaped, out>>

-----------------------------------------------------------------------------
\* s holds the members of S in their order.
Lists(s, S) == Range(s) = S /\ \A i, j \in DOMAIN s : i < j => s[i] < s[j]

\* source[i], and i < n
Char(i) == text[source[i]]
Inside(i) == i <= Len(source)
NextTwo(x, y) == Inside(at + 1) /\ Char(at) = x /\ Char(at + 1) = y

Places == DOMAIN source

JsonxStart(characters) ==
  /\ text = characters
  /\ scan = "comments"
  /\ source = [i \in 1 .. Len(characters) |-> i]
  /\ at = 1
  /\ in_string = FALSE /\ escaped = FALSE
  /\ out = <<>>

JsonxInit == \E characters \in Texts : JsonxStart(characters)

\* The branches of both scanners.
Scanning(branch, quoted) ==
  /\ scan = branch \/ (branch = "both" /\ scan # "over")
  /\ Inside(at)
  /\ in_string = quoted
  /\ UNCHANGED <<text, scan, source>>

Keep == out' = Append(out, source[at]) /\ at' = at + 1

\* Slip: a backslash is itself taken for escaped.
BlindStringCharacter ==
  /\ Scanning("both", TRUE)
  /\ Keep
  /\ in_string' = (Char(at) # Quote \/ (at > 1 /\ Char(at - 1) = Backslash))
  /\ UNCHANGED escaped

\* if in_string: ...
StringCharacter ==
  /\ Scanning("both", TRUE)
  /\ Keep
  /\ escaped' = (~ escaped /\ Char(at) = Backslash)
  /\ in_string' = (escaped \/ Char(at) # Quote)

OpenString ==
  /\ Scanning("both", FALSE)
  /\ Char(at) = Quote
  /\ Keep
  /\ in_string' = TRUE
  /\ UNCHANGED escaped

LineComment ==
  /\ Scanning("comments", FALSE)
  /\ Char(at) = Hash \/ NextTwo(Slash, Slash)
  /\ LET ends == {i \in Places : i >= at /\ Char(i) = Newline}
     IN  at' = IF ends = {} THEN Len(source) + 1 ELSE Min(ends)
  /\ UNCHANGED <<in_string, escaped, out>>

\* The inner loop stops at the closing mark or, where there is none, before
\* the last character, and skips two characters then.
BlockComment ==
  /\ Scanning("comments", FALSE)
  /\ NextTwo(Slash, Star)
  /\ LET ends == {i \in Places : /\ i >= at + 2 /\ Inside(i + 1)
                                 /\ Char(i) = Star /\ Char(i + 1) = Slash}
         stop == IF ends # {} THEN Min(ends) ELSE Max({at + 2, Len(source)})
         kept == {i \in at + 2 .. stop - 1 : Char(i) = Newline}
     IN  /\ \E lines \in [1 .. Cardinality(kept) -> kept] :
              /\ Lists(lines, kept)
              /\ out' = out \o [k \in DOMAIN lines |-> source[lines[k]]]
         /\ at' = stop + 2
  /\ UNCHANGED <<in_string, escaped>>

OtherCharacter ==
  /\ Scanning("comments", FALSE)
  /\ Char(at) \notin {Quote, Hash}
  /\ ~ NextTwo(Slash, Slash) /\ ~ NextTwo(Slash, Star)
  /\ Keep
  /\ UNCHANGED <<in_string, escaped>>

\* The first scanner returns, and the second is called.
NextScanner ==
  /\ scan = "comments"
  /\ ~ Inside(at)
  /\ scan' = "commas"
  /\ source' = out
  /\ at' = 1 /\ in_string' = FALSE /\ escaped' = FALSE /\ out' = <<>>
  /\ UNCHANGED text

\* A comma before a closing bracket, blanks between them left aside.
Trailing ==
  /\ Char(at) = Comma
  /\ \E j \in Places :
       /\ j > at /\ Char(j) \in Closers
       /\ \A i \in at + 1 .. j - 1 : Char(i) \in Blanks

Commas ==
  /\ Scanning("commas", FALSE)
  /\ Char(at) # Quote
  /\ IF Trailing THEN at' = at + 1 /\ UNCHANGED out ELSE Keep
  /\ UNCHANGED <<in_string, escaped>>

Return ==
  /\ scan = "commas"
  /\ ~ Inside(at)
  /\ scan' = "over"
  /\ UNCHANGED <<text, source, at, in_string, escaped, out>>

JsonxNext ==
  \/ StringCharacter \/ OpenString
  \/ LineComment \/ BlockComment \/ OtherCharacter \/ NextScanner
  \/ Commas \/ Return

JsonxSpec == JsonxInit /\ [][JsonxNext]_jsonxVars
-----------------------------------------------------------------------------
(***************************************************************************)
(* JSONX as its docstring has it. A text is cut into tokens, each at       *)
(* from .. to - 1: strings, comments, and single characters.               *)
(***************************************************************************)

\* An odd number of backslashes, back to the start of the string, precedes i.
EscapedAt(from, i) ==
  \E k \in from .. i - 1 :
    /\ (i - k) % 2 = 0
    /\ \A j \in k + 1 .. i - 1 : text[j] = Backslash
    /\ text[k] # Backslash

Closing(from, i) == text[i] = Quote /\ ~ EscapedAt(from, i)

IsString(from, to) ==
  /\ text[from] = Quote
  /\ \A i \in from + 1 .. to - 2 : ~ Closing(from, i)
  /\ to = Len(text) + 1 \/ (to > from + 1 /\ Closing(from, to - 1))

Starts(i, x, y) == i < Len(text) /\ text[i] = x /\ text[i + 1] = y

IsLineComment(from, to) ==
  /\ text[from] = Hash \/ Starts(from, Slash, Slash)
  /\ \A i \in from .. to - 1 : text[i] # Newline
  /\ to = Len(text) + 1 \/ text[to] = Newline

IsBlockComment(from, to) ==
  /\ Starts(from, Slash, Star)
  /\ \A i \in from + 2 .. to - 3 : ~ Starts(i, Star, Slash)
  /\ to = Len(text) + 1 \/ (to > from + 3 /\ Starts(to - 2, Star, Slash))

IsCharacter(from, to) ==
  /\ to = from + 1
  /\ text[from] \notin {Quote, Hash}
  /\ ~ Starts(from, Slash, Slash) /\ ~ Starts(from, Slash, Star)

\* The place where the token that i is in begins, and where the next one does.
Begin(cuts, i) == Max({j \in cuts : j <= i})
End(cuts, i) == Min({j \in cuts : j > i} \cup {Len(text) + 1})

\* The tokens that begin at the places of cuts.
IsCut(cuts) ==
  \A from \in cuts :
    LET to == End(cuts, from)
    IN  \/ IsString(from, to) \/ IsCharacter(from, to)
        \/ IsLineComment(from, to) \/ IsBlockComment(from, to)

Quoted(cuts, i) == IsString(Begin(cuts, i), End(cuts, i))

\* Strings and single characters stay, and of block comments the newlines: the
\* records on both sides of one keep their lines. The last character of the
\* text does not divide records.
Meant(cuts) ==
  {i \in 1 .. Len(text) :
     LET from == Begin(cuts, i)
         to == End(cuts, i)
     IN  \/ IsString(from, to) \/ IsCharacter(from, to)
         \/ IsBlockComment(from, to) /\ text[i] = Newline /\ i < Len(text)}

\* JSON does not allow the comma at i, given what is kept.
Forbidden(cuts, kept, i) ==
  /\ text[i] = Comma /\ ~ Quoted(cuts, i)
  /\ \E j \in kept :
       /\ j > i /\ text[j] \in Closers
       /\ \A k \in kept : i < k /\ k < j => text[k] \in Blanks

\* What is handed to json.loads is exactly what the grammar means. A scanner
\* that loses count of a quote or a backslash takes strings for comments, or
\* comments for strings, to the end of the file; and the second scanner, which
\* reads what the first has left, must see the same strings in it.
StrippedAsMeant ==
  scan = "over" =>
    \E cuts \in SUBSET (1 .. Len(text)) :
      /\ text # <<>> => 1 \in cuts
      /\ IsCut(cuts)
      /\ LET kept == Meant(cuts)
         IN  Lists(out, {i \in kept : ~ Forbidden(cuts, kept, i)})
=============================================================================
