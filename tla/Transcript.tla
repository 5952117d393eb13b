----------------------------- MODULE Transcript -----------------------------
(***************************************************************************)
(* The messages of one session as values: what the context builder makes   *)
(* of a stored history before it is sent to a model, and what the agent    *)
(* loop keeps of a history that grew too long.  A message is its role, the *)
(* turn that wrote it and the tool calls it makes (assistant) or answers   *)
(* (tool); texts are left out.  A stored history holds no system message.  *)
(***************************************************************************)
EXTENDS Integers, Sequences, FiniteSets, SequencesExt

Roles == {"user", "assistant", "tool"}
Message(turns, ids) == [role : Roles, of : turns, calls : SUBSET ids]

MakesCalls(m) == m.role = "assistant" /\ m.calls # {}

\* The positions of the tool messages that follow position i directly.
ToolRun(s, i) ==
    {j \in (i + 1)..Len(s) : \A k \in (i + 1)..j : s[k].role = "tool"}

-----------------------------------------------------------------------------
\* sanitizeHistoryForProvider.  First pass: a tool message needs a call turn
\* with nothing but tool messages in between, a call turn needs a user or
\* tool message before it.
BelongsToCallTurn(kept) ==
    \E i \in DOMAIN kept : /\ MakesCalls(kept[i])
                           /\ ToolRun(kept, i) = (i + 1)..Len(kept)
MayFollow(kept, m) ==
    /\ m.role = "tool" => BelongsToCallTurn(kept)
    /\ MakesCalls(m) => kept # <<>> /\ Last(kept).role \in {"user", "tool"}

FirstPass(h) ==
    FoldLeft(LAMBDA kept, m : IF MayFollow(kept, m) THEN Append(kept, m) ELSE kept,
             <<>>, h)

\* Second pass: a call turn some of whose results are missing goes, with the
\* tool messages that follow it.
Answered(s, i) ==
    MakesCalls(s[i]) => s[i].calls \subseteq UNION {s[j].calls : j \in ToolRun(s, i)}
Incomplete(s) ==
    UNION {{i} \cup ToolRun(s, i) : i \in {j \in DOMAIN s : ~Answered(s, j)}}
SecondPass(s) ==
    LET gone == Incomplete(s)
    IN  FoldLeftDomain(LAMBDA kept, i : IF i \in gone THEN kept ELSE Append(kept, s[i]),
                       <<>>, s)

SanitizeOnce(h) == FirstPass(h) \* Mutant: the second pass is missing.
Sanitize(h) == SecondPass(FirstPass(h))

-----------------------------------------------------------------------------
\* TruncateHistory keeps the last n messages.
Truncate(h, n) == IF Len(h) <= n THEN h ELSE SubSeq(h, Len(h) - n + 1, Len(h))

\* forceCompression keeps the first message and drops half of what lies
\* between it and the last.
Compress(h) ==
    IF Len(h) <= 4 THEN h
    ELSE <<Head(h)>> \o SubSeq(h, 2 + (Len(h) - 2) \div 2, Len(h))

UserMessages(h) == {i \in DOMAIN h : h[i].role = "user"}
FirstUser(h) == h[CHOOSE i \in UserMessages(h) : \A j \in UserMessages(h) : i <= j]
=============================================================================
