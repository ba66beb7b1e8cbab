---------------------------- MODULE ConfigFile -----------------------------
(***************************************************************************)
(* ConfigFile of mysdk/exconfig: SetSource goes through a file line by     *)
(* line, and the rest of a line again and again ("goto parse"), with flags *)
(* for the comment, block and quote it is in. The file is written here     *)
(* token by token, beside what its author means by it.                     *)
(*                                                                         *)
(* A file may have comments anywhere a pass over a line begins, blocks and *)
(* settings over several lines, and values in quotes that go on (of which  *)
(* the parser keeps other text than is meant). It has no empty value, on   *)
(* which "goto parse" never ends, nothing behind a '>', which is dropped,  *)
(* and no '//' comment, which is_comment does not know without a third /.  *)
(* The asserts of SetSource are compiled in: a build without them would    *)
(* give a value to the wrong name where this one aborts.                   *)
(***************************************************************************)
EXTENDS Naturals, Sequences, SequencesExt

CONSTANTS
    CfgBlock,     \* names of blocks: sequences of letters
    CfgName,      \* names of settings
    CfgValue,     \* values: what stands between the quotes
    HashWidth,    \* uint32 is 2^32
    MaxTokens     \* bound: tokens of a file

VARIABLES
    doc,          \* where the author is: block, setting, in a comment, in a quote;
                  \* bad: a block has no name; split: see Splits
    meant,        \* block -> setting -> value, as the author means them
    line,         \* the line, or what is left of it
    reading,      \* whether the parser has the line
    flags,        \* in_multiline_comment, in_multiline_quote, in_block
    current,      \* current_block, current_variable, current_block_map
    settings,     \* m_settings
    outcome,      \* what SetSource returned, "aborts", or "none"
    ntok          \* counts tokens for MaxTokens

cfgVars == <<doc, meant, line, reading, flags, current, settings, outcome, ntok>>

NoName == <<>>
NoEntry == [x \in {} |-> x]
Put(f, k, v) == [x \in DOMAIN f \cup {k} |-> IF x = k THEN v ELSE f[x]]

\* ahash
Ahash(name) == FoldLeft(LAMBDA h, c : (6 * h + c) % HashWidth, 0, name)

\* apply_setting: the number in the text, and yes and no.
ApplySetting(v) ==
    [AsString |-> v,
     AsInt    |-> CASE v = "yes" -> 1 [] v = "no" -> 0 [] v = "3306" -> 3306 [] OTHER -> 0]

\* The parser knows a name by its hash only: the names of a file must not share one.
ASSUME ConfigFileAssumption ==
    /\ NoName \notin CfgBlock \cup CfgName
    /\ \A a, b \in CfgBlock : Ahash(a) = Ahash(b) => a = b
    /\ \A a, b \in CfgName : Ahash(a) = Ahash(b) => a = b

-----------------------------------------------------------------------------
(* The author                                                               *)

Tok(is, n) == [is |-> is, n |-> n]
HasToken(l, is) == \E i \in DOMAIN l : l[i].is = is
LastToken == IF line = <<>> THEN "none" ELSE Last(line).is
PassBegins == LastToken \in {"none", "<", "value"}
Writable == ~doc.comment /\ ~doc.quote /\ LastToken \notin {"#", ">", "nameless"}

\* The next token, where the author stands after it, and what it means.
WriteToken(t, d, m) ==
    /\ ~reading /\ outcome = "none" /\ ntok < MaxTokens
    /\ ntok' = ntok + 1 /\ line' = Append(line, t) /\ doc' = d /\ meant' = m
    /\ UNCHANGED <<reading, flags, current, settings, outcome>>

InBlock == doc.block # NoName

\* The line has the value of a name of an earlier line, and no name yet.
Splits == HasToken(line, "value") /\ ~HasToken(line, "=")

Means(v) == Put(meant, doc.block, Put(meant[doc.block], doc.name, v))

WriteBlock(b) == Writable /\ ~InBlock /\ WriteToken(Tok("<", b), [doc EXCEPT !.block = b], Put(meant, b, NoEntry))
WriteNameless == Writable /\ ~InBlock /\ WriteToken(Tok("nameless", NoName), [doc EXCEPT !.bad = TRUE], meant)
WriteName(n) == Writable /\ InBlock /\ doc.name = NoName
                /\ WriteToken(Tok("=", n), [doc EXCEPT !.name = n, !.split = @ \/ Splits], meant)
WriteValue(v) == Writable /\ doc.name # NoName
                 /\ WriteToken(Tok("value", v), [doc EXCEPT !.name = NoName], Means(v))
WriteQuote == Writable /\ doc.name # NoName
              /\ WriteToken(Tok("quote", NoName), [doc EXCEPT !.quote = TRUE], Means("manyLines"))
WriteUnquote == doc.quote /\ line = <<>>
                /\ WriteToken(Tok("quote", NoName), [doc EXCEPT !.quote = FALSE, !.name = NoName], meant)
WriteEnd == Writable /\ InBlock /\ doc.name = NoName /\ WriteToken(Tok(">", NoName), [doc EXCEPT !.block = NoName], meant)
WriteHash == Writable /\ WriteToken(Tok("#", NoName), doc, meant)
WriteComment == Writable /\ PassBegins /\ WriteToken(Tok("/*", NoName), [doc EXCEPT !.comment = TRUE], meant)
WriteText == (doc.comment \/ doc.quote) /\ line = <<>> /\ WriteToken(Tok("text", NoName), doc, meant)
WriteUncomment == doc.comment /\ WriteToken(Tok("*/", NoName), [doc EXCEPT !.comment = FALSE], meant)

\* The end of the line, and of the file.
EndLine ==
    /\ ~reading /\ outcome = "none" /\ line # <<>>
    /\ reading' = TRUE
    /\ UNCHANGED <<doc, meant, line, flags, current, settings, outcome, ntok>>

-----------------------------------------------------------------------------
(* SetSource                                                                *)

IndexOf(l, is) == CHOOSE i \in DOMAIN l : l[i].is = is /\ \A j \in 1 .. i - 1 : l[j].is # is
LeftFrom(l, i) == SubSeq(l, i, Len(l))

\* is_comment for a line that is one.
IsComment == ~flags.comment /\ line[1].is = "#"

\* What is left of a line when the comment in front is taken away; a comment that
\* does not end takes all.
Commented == flags.comment \/ line[1].is = "/*"
Uncommented == IF ~Commented THEN line
               ELSE IF HasToken(line, "*/") THEN LeftFrom(line, IndexOf(line, "*/") + 1) ELSE <<>>
CommentGoesOn == Commented /\ ~HasToken(line, "*/")

\* One pass ends: the next one begins with what is left, or the next line.
Parsed(rest) == line' = rest /\ reading' = (rest # <<>>) /\ UNCHANGED <<doc, meant, ntok>>
NextLine == Parsed(<<>>)

SkipComment ==
    /\ reading /\ (IsComment \/ CommentGoesOn)
    /\ flags' = [flags EXCEPT !.comment = CommentGoesOn]
    /\ NextLine /\ UNCHANGED <<current, settings, outcome>>

\* The line of a pass that gets behind the comments.
Passes == reading /\ ~IsComment /\ ~CommentGoesOn
AfterComment == [flags EXCEPT !.comment = FALSE]

WithSetting(c, v) ==
    [block |-> c.block, name |-> NoName, map |-> Put(c.map, Ahash(c.name), ApplySetting(v))]

\* The end of a quote that went on: the setting keeps the text of the lines and the
\* closing quote, not what was meant, and the pass goes on behind it.
Requoted == IF flags.quote /\ HasToken(Uncommented, "quote")
            THEN LeftFrom(Uncommented, IndexOf(Uncommented, "quote") + 1) ELSE Uncommented
CurrentNow == IF flags.quote THEN WithSetting(current, "otherText") ELSE current
FlagsNow == [AfterComment EXCEPT !.quote = FALSE]

QuoteGoesOn ==
    /\ Passes /\ flags.block /\ flags.quote /\ ~HasToken(Uncommented, "quote")
    /\ flags' = AfterComment /\ NextLine /\ UNCHANGED <<current, settings, outcome>>

\* assert(current_variable == ""): another name is still without a value.
Asserts == HasToken(Requoted, "=") /\ CurrentNow.name # NoName
Quotes == flags.quote => HasToken(Uncommented, "quote")
Settles == Passes /\ flags.block /\ Quotes /\ ~Asserts

Aborts ==
    /\ Passes /\ flags.block /\ Quotes /\ Asserts
    /\ outcome' = "aborts" /\ NextLine /\ UNCHANGED <<flags, current, settings>>

\* A name in front of the '=' is remembered, over the end of the line, too.
Named == IF HasToken(Requoted, "=")
         THEN [CurrentNow EXCEPT !.name = Requoted[IndexOf(Requoted, "=")].n]
         ELSE CurrentNow
Values == IF HasToken(Requoted, "=") THEN LeftFrom(Requoted, IndexOf(Requoted, "=") + 1) ELSE Requoted

\* The closing quote is on the same line: goto parse.
Setting ==
    LET i == IndexOf(Values, "value") IN
    /\ Settles /\ HasToken(Values, "value")
    /\ current' = WithSetting(Named, Values[i].n) /\ flags' = FlagsNow
    /\ Parsed(LeftFrom(Values, i + 1)) /\ UNCHANGED <<settings, outcome>>

QuoteBegins ==
    /\ Settles /\ ~HasToken(Values, "value") /\ HasToken(Values, "quote")
    /\ current' = Named /\ flags' = [FlagsNow EXCEPT !.quote = TRUE]
    /\ NextLine /\ UNCHANGED <<settings, outcome>>

\* MUTANT of BlockEnds: the map of the block seeps through.
BlockEndsSeeping ==
    /\ Settles /\ ~HasToken(Values, "value") /\ ~HasToken(Values, "quote") /\ HasToken(Values, ">")
    /\ settings' = Put(settings, Ahash(Named.block), Named.map)
    /\ current' = [current EXCEPT !.block = NoName, !.name = NoName]
    /\ flags' = [FlagsNow EXCEPT !.block = FALSE]
    /\ NextLine /\ UNCHANGED outcome

\* The block becomes a setting of the file, in the place of an earlier one, and the
\* rest of the line is dropped.
BlockEnds ==
    /\ Settles /\ ~HasToken(Values, "value") /\ ~HasToken(Values, "quote") /\ HasToken(Values, ">")
    /\ settings' = Put(settings, Ahash(Named.block), Named.map)
    /\ current' = [block |-> NoName, name |-> NoName, map |-> NoEntry]
    /\ flags' = [FlagsNow EXCEPT !.block = FALSE]
    /\ NextLine /\ UNCHANGED outcome

\* Neither: the rest of the line is dropped.
Drops ==
    /\ Settles /\ ~HasToken(Values, "value") /\ ~HasToken(Values, "quote") /\ ~HasToken(Values, ">")
    /\ current' = Named /\ flags' = FlagsNow /\ NextLine /\ UNCHANGED <<settings, outcome>>

BlockBegins ==
    /\ Passes /\ ~flags.block /\ HasToken(Uncommented, "<")
    /\ flags' = [AfterComment EXCEPT !.block = TRUE]
    /\ current' = [current EXCEPT !.block = Uncommented[IndexOf(Uncommented, "<")].n]
    /\ Parsed(LeftFrom(Uncommented, IndexOf(Uncommented, "<") + 1)) /\ UNCHANGED <<settings, outcome>>

OutsideBlocks ==
    /\ Passes /\ ~flags.block /\ ~HasToken(Uncommented, "<")
    /\ flags' = AfterComment
    /\ outcome' = IF HasToken(Uncommented, "nameless") THEN "false" ELSE outcome
    /\ NextLine /\ UNCHANGED <<current, settings>>

\* No line is left: what has begun must have ended.
EndOfFile ==
    /\ ~reading /\ line = <<>> /\ outcome = "none"
    /\ outcome' = IF flags.block \/ flags.comment \/ flags.quote THEN "false" ELSE "true"
    /\ UNCHANGED <<doc, meant, line, reading, flags, current, settings, ntok>>

\* GetSetting and its callers, which have a default.
GetSetting(block, name) ==
    IF Ahash(block) \in DOMAIN settings /\ Ahash(name) \in DOMAIN settings[Ahash(block)]
    THEN settings[Ahash(block)][Ahash(name)] ELSE [AsString |-> "default", AsInt |-> 0]

CfgInit ==
    /\ doc = [block |-> NoName, name |-> NoName, comment |-> FALSE, quote |-> FALSE,
              bad |-> FALSE, split |-> FALSE]
    /\ meant = NoEntry /\ settings = NoEntry /\ line = <<>> /\ reading = FALSE
    /\ flags = [comment |-> FALSE, quote |-> FALSE, block |-> FALSE]
    /\ current = [block |-> NoName, name |-> NoName, map |-> NoEntry]
    /\ outcome = "none" /\ ntok = 0

CfgNext ==
    \/ \E b \in CfgBlock : WriteBlock(b)
    \/ \E n \in CfgName : WriteName(n)
    \/ \E v \in CfgValue : WriteValue(v)
    \/ WriteNameless \/ WriteQuote \/ WriteUnquote \/ WriteEnd
    \/ WriteHash \/ WriteComment \/ WriteText \/ WriteUncomment
    \/ EndLine \/ SkipComment \/ QuoteGoesOn \/ Aborts \/ Setting \/ QuoteBegins \/ BlockEnds \/ Drops
    \/ BlockBegins \/ OutsideBlocks \/ EndOfFile

CfgSpec == CfgInit /\ [][CfgNext]_cfgVars

-----------------------------------------------------------------------------
(* Properties                                                               *)

WellFormed == doc.block = NoName /\ ~doc.comment /\ ~doc.quote /\ ~doc.bad

\* SetSource aborts only where a name has its value on a later line and another name
\* stands behind it, and succeeds for any other file in which everything that begins
\* ends, and only for one; the program then reads each setting as the author means it,
\* wherever the lines and comments are, and the default for all others.
SettingsAsMeant ==
    /\ outcome # "none" =>
         outcome = IF doc.split THEN "aborts" ELSE IF WellFormed THEN "true" ELSE "false"
    /\ outcome = "true" =>
         \A b \in CfgBlock, n \in CfgName :
            LET got == GetSetting(b, n) IN
            IF b \in DOMAIN meant /\ n \in DOMAIN meant[b]
            THEN meant[b][n] # "manyLines" => got.AsString = meant[b][n]
            ELSE got.AsString = "default"
=============================================================================
