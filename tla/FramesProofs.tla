---------------------------- MODULE FramesProofs ----------------------------
(***************************************************************************)
(* The theorem about the bytes of a stream: for any events, endings of     *)
(* lines and cuts, the reader is told the events that were written.  The   *)
(* text ahead is what the buffer will be once everything held back or on   *)
(* the wire has been read as one piece; the invariant, FramesHold, says    *)
(* that it is the events the reader has not been told of, one after the    *)
(* other.                                                                  *)
(***************************************************************************)
EXTENDS MCCallStream, OrderedProofs, SequenceTheorems, FiniteSetTheorems, TLAPS

(* SseFrames.  The definitions by recursion, unfolded. *)

\* What the n-th symbol of a chunk adds.
Joined(chunk, n, before) ==
    IF chunk[n] = F!CR THEN Append(before, F!LF)
    ELSE IF chunk[n] = F!LF /\ n > 1 /\ chunk[n - 1] = F!CR THEN before
    ELSE Append(before, chunk[n])

LEMMA UnitingUnfolds ==
    ASSUME NEW T, F!LF \in T, NEW chunk \in Seq(T)
    PROVE  /\ F!Uniting(chunk) \in [0 .. Len(chunk) -> Seq(T)]
           /\ F!Uniting(chunk)[0] = <<>>
           /\ \A n \in 1 .. Len(chunk) : F!Uniting(chunk)[n] = Joined(chunk, n, F!Uniting(chunk)[n - 1])
<1> DEFINE step == [p \in Nat \X Seq(T) |->
                        IF p[1] \in 1 .. Len(chunk) THEN Joined(chunk, p[1], p[2]) ELSE <<>>]
<1>1. Len(chunk) \in Nat /\ \A n \in 1 .. Len(chunk) : chunk[n] \in T
    BY LenProperties, ElementOfSeq
<1>2. step \in [Nat \X Seq(T) -> Seq(T)]
    <2> SUFFICES ASSUME NEW p \in Nat \X Seq(T), p[1] \in 1 .. Len(chunk)
        PROVE  Joined(chunk, p[1], p[2]) \in Seq(T)
        BY EmptySeq
    <2>1. p[2] \in Seq(T) /\ chunk[p[1]] \in T
        BY <1>1
    <2>2. Append(p[2], F!LF) \in Seq(T) /\ Append(p[2], chunk[p[1]]) \in Seq(T)
        BY <2>1, AppendProperties
    <2> QED
        BY <2>1, <2>2 DEF Joined
<1>3. PICK f \in [0 .. Len(chunk) -> Seq(T)] : StepsFrom(f, <<>>, step, Len(chunk))
    <2>1. <<>> \in Seq(T)
        BY EmptySeq
    <2> HIDE DEF step
    <2> QED
        BY <1>1, <1>2, <2>1, StepsDefine
<1>4. \A n \in 1 .. Len(chunk) : f[n] = Joined(chunk, n, f[n - 1])
    <2> SUFFICES ASSUME NEW n \in 1 .. Len(chunk) PROVE f[n] = Joined(chunk, n, f[n - 1])
        OBVIOUS
    <2>1. f[n] = step[<<n, f[n - 1]>>]
        BY <1>3 DEF StepsFrom
    <2>2. n \in Nat /\ n - 1 \in 0 .. Len(chunk)
        BY <1>1
    <2>3. <<n, f[n - 1]>> \in Nat \X Seq(T)
        BY <2>2
    <2> QED
        BY <2>1, <2>3
<1>5. f = [n \in 0 .. Len(chunk) |->
                IF n = 0 THEN <<>>
                ELSE IF chunk[n] = F!CR THEN Append(f[n - 1], F!LF)
                ELSE IF chunk[n] = F!LF /\ n > 1 /\ chunk[n - 1] = F!CR THEN f[n - 1]
                ELSE Append(f[n - 1], chunk[n])]
    <2>1. \A n \in 0 .. Len(chunk) : f[n] = IF n = 0 THEN <<>> ELSE Joined(chunk, n, f[n - 1])
        BY <1>1, <1>3, <1>4 DEF StepsFrom
    <2> QED
        BY <2>1, <1>1 DEF Joined
<1>6. F!Uniting(chunk) = [n \in 0 .. Len(chunk) |->
                IF n = 0 THEN <<>>
                ELSE IF chunk[n] = F!CR THEN Append(F!Uniting(chunk)[n - 1], F!LF)
                ELSE IF chunk[n] = F!LF /\ n > 1 /\ chunk[n - 1] = F!CR THEN F!Uniting(chunk)[n - 1]
                ELSE Append(F!Uniting(chunk)[n - 1], chunk[n])]
    BY <1>5 DEF F!Uniting
<1>7. PICK g : g = F!Uniting(chunk)
    OBVIOUS
<1>8. /\ DOMAIN g = 0 .. Len(chunk) /\ g[0] = <<>>
      /\ \A n \in 1 .. Len(chunk) : g[n] = Joined(chunk, n, g[n - 1])
    <2>1. g = [n \in 0 .. Len(chunk) |->
                IF n = 0 THEN <<>>
                ELSE IF chunk[n] = F!CR THEN Append(g[n - 1], F!LF)
                ELSE IF chunk[n] = F!LF /\ n > 1 /\ chunk[n - 1] = F!CR THEN g[n - 1]
                ELSE Append(g[n - 1], chunk[n])]
        BY <1>6, <1>7
    <2>2. DOMAIN g = 0 .. Len(chunk)
        BY <2>1
    <2>3. \A n \in 0 .. Len(chunk) : g[n] = IF n = 0 THEN <<>> ELSE Joined(chunk, n, g[n - 1])
        BY <2>1, Zenon DEF Joined
    <2> QED
        BY <2>2, <2>3, <1>1
<1>9. \A n \in 0 .. Len(chunk) : f[n] = g[n]
    <2>1. \A n \in 1 .. Len(chunk) : f[n - 1] = g[n - 1] => f[n] = g[n]
        BY <1>4, <1>8
    <2>2. f[0] = g[0] /\ Len(chunk) \in Nat
        BY <1>1, <1>3, <1>8 DEF StepsFrom
    <2> HIDE DEF step
    <2> QED
        BY <2>1, <2>2, StepsAgree, ZenonT(60)
<1>10. g \in [0 .. Len(chunk) -> Seq(T)]
    <2>1. g = [n \in 0 .. Len(chunk) |-> g[n]]
        BY <1>6, <1>7
    <2> QED
        BY <2>1, <1>9
<1> QED
    BY <1>7, <1>8, <1>10

LEMMA LaidUnfolds ==
    ASSUME NEW T, NEW text \in Seq(T), NEW ending \in Seq(T)
    PROVE  /\ F!Laid(text, ending) \in [0 .. Len(text) -> Seq(T)]
           /\ F!Laid(text, ending)[0] = <<>>
           /\ \A n \in 1 .. Len(text) :
                F!Laid(text, ending)[n] = F!Laid(text, ending)[n - 1] \o <<text[n]>> \o ending
<1> DEFINE step == [p \in Nat \X Seq(T) |->
                        IF p[1] \in 1 .. Len(text) THEN p[2] \o <<text[p[1]]>> \o ending ELSE <<>>]
<1>1. Len(text) \in Nat /\ \A n \in 1 .. Len(text) : text[n] \in T
    BY LenProperties, ElementOfSeq
<1>2. step \in [Nat \X Seq(T) -> Seq(T)]
    <2> SUFFICES ASSUME NEW p \in Nat \X Seq(T), p[1] \in 1 .. Len(text)
        PROVE  p[2] \o <<text[p[1]]>> \o ending \in Seq(T)
        BY EmptySeq
    <2>1. p[2] \in Seq(T) /\ <<text[p[1]]>> \in Seq(T)
        BY <1>1
    <2>2. p[2] \o <<text[p[1]]>> \in Seq(T)
        BY <2>1, ConcatProperties
    <2> QED
        BY <2>2, ConcatProperties
<1>3. PICK f \in [0 .. Len(text) -> Seq(T)] : StepsFrom(f, <<>>, step, Len(text))
    <2>1. <<>> \in Seq(T)
        BY EmptySeq
    <2> HIDE DEF step
    <2> QED
        BY <1>1, <1>2, <2>1, StepsDefine
<1>4. \A n \in 1 .. Len(text) : f[n] = f[n - 1] \o <<text[n]>> \o ending
    <2> SUFFICES ASSUME NEW n \in 1 .. Len(text) PROVE f[n] = f[n - 1] \o <<text[n]>> \o ending
        OBVIOUS
    <2>1. f[n] = step[<<n, f[n - 1]>>]
        BY <1>3 DEF StepsFrom
    <2>2. n \in Nat /\ n - 1 \in 0 .. Len(text)
        BY <1>1
    <2>3. <<n, f[n - 1]>> \in Nat \X Seq(T)
        BY <2>2
    <2> QED
        BY <2>1, <2>3
<1>5. f = [n \in 0 .. Len(text) |-> IF n = 0 THEN <<>> ELSE f[n - 1] \o <<text[n]>> \o ending]
    <2>1. \A n \in 0 .. Len(text) : f[n] = IF n = 0 THEN <<>> ELSE f[n - 1] \o <<text[n]>> \o ending
        BY <1>1, <1>3, <1>4 DEF StepsFrom
    <2> QED
        BY <2>1, <1>1
<1>6. F!Laid(text, ending) =
        [n \in 0 .. Len(text) |-> IF n = 0 THEN <<>> ELSE F!Laid(text, ending)[n - 1] \o <<text[n]>> \o ending]
    BY <1>5 DEF F!Laid
<1>7. PICK g : g = F!Laid(text, ending)
    OBVIOUS
<1>8. /\ g = [n \in 0 .. Len(text) |-> g[n]] /\ g[0] = <<>>
      /\ \A n \in 1 .. Len(text) : g[n] = g[n - 1] \o <<text[n]>> \o ending
    <2>1. g = [n \in 0 .. Len(text) |-> IF n = 0 THEN <<>> ELSE g[n - 1] \o <<text[n]>> \o ending]
        BY <1>6, <1>7
    <2>2. g = [n \in 0 .. Len(text) |-> g[n]]
        BY <2>1
    <2>3. \A n \in 0 .. Len(text) : g[n] = IF n = 0 THEN <<>> ELSE g[n - 1] \o <<text[n]>> \o ending
        BY <2>1, Zenon
    <2>4. 0 \in 0 .. Len(text) /\ \A n \in 1 .. Len(text) : n \in 0 .. Len(text) /\ n # 0
        BY <1>1
    <2>5. g[0] = <<>> /\ \A n \in 1 .. Len(text) : g[n] = g[n - 1] \o <<text[n]>> \o ending
        BY <2>3, <2>4, Zenon
    <2> QED
        BY <2>2, <2>5, Zenon
<1>9. \A n \in 0 .. Len(text) : f[n] = g[n]
    <2>1. \A n \in 1 .. Len(text) : f[n - 1] = g[n - 1] => f[n] = g[n]
        BY <1>4, <1>8
    <2>2. f[0] = g[0] /\ Len(text) \in Nat
        BY <1>1, <1>3, <1>8 DEF StepsFrom
    <2> HIDE DEF step
    <2> QED
        BY <2>1, <2>2, StepsAgree, ZenonT(60)
<1>10. g \in [0 .. Len(text) -> Seq(T)]
    BY <1>8, <1>9
<1> QED
    BY <1>7, <1>8, <1>10

\* Reading a frame from an event on.
ReadsOn(frame, adding, origin) ==
    /\ adding[0] = origin
    /\ \A n \in 1 .. Len(frame) : adding[n] = F!Field(adding[n - 1], frame[n])

StaysIn(E, frame) == \A event \in E, n \in 1 .. Len(frame) : F!Field(event, frame[n]) \in E

LEMMA AddingUnfolds ==
    ASSUME NEW E, NEW id, NEW origin \in E, origin = [F!NoEvent EXCEPT !.id = id],
           NEW frame, Len(frame) \in Nat, StaysIn(E, frame)
    PROVE  ReadsOn(frame, F!Adding(frame, id), origin)
<1>1. \A event \in E, n \in 1 .. Len(frame) : F!Field(event, frame[n]) \in E
    BY DEF StaysIn
<1> DEFINE step == [p \in Nat \X E |-> IF p[1] \in 1 .. Len(frame) THEN F!Field(p[2], frame[p[1]]) ELSE origin]
<1>2. step \in [Nat \X E -> E]
    BY <1>1
<1>3. PICK f \in [0 .. Len(frame) -> E] : StepsFrom(f, origin, step, Len(frame))
    <2> HIDE DEF step
    <2> QED
        BY <1>2, StepsDefine
<1>4. \A n \in 1 .. Len(frame) : f[n] = F!Field(f[n - 1], frame[n])
    <2> SUFFICES ASSUME NEW n \in 1 .. Len(frame) PROVE f[n] = F!Field(f[n - 1], frame[n])
        OBVIOUS
    <2>1. f[n] = step[<<n, f[n - 1]>>]
        BY <1>3 DEF StepsFrom
    <2>2. n \in Nat /\ n - 1 \in 0 .. Len(frame)
        OBVIOUS
    <2>3. <<n, f[n - 1]>> \in Nat \X E
        BY <2>2
    <2> QED
        BY <2>1, <2>3
<1>5. f = [n \in 0 .. Len(frame) |-> IF n = 0 THEN origin ELSE F!Field(f[n - 1], frame[n])]
    <2>1. \A n \in 0 .. Len(frame) : f[n] = IF n = 0 THEN origin ELSE F!Field(f[n - 1], frame[n])
        BY <1>3, <1>4 DEF StepsFrom
    <2> QED
        BY <2>1
<1>6. F!Adding(frame, id) =
        [n \in 0 .. Len(frame) |->
            IF n = 0 THEN [F!NoEvent EXCEPT !.id = id] ELSE F!Field(F!Adding(frame, id)[n - 1], frame[n])]
    BY <1>5 DEF F!Adding
<1>7. PICK g : g = F!Adding(frame, id)
    OBVIOUS
<1>8. /\ g = [n \in 0 .. Len(frame) |-> g[n]] /\ g[0] = origin
      /\ \A n \in 1 .. Len(frame) : g[n] = F!Field(g[n - 1], frame[n])
    <2>1. g = [n \in 0 .. Len(frame) |-> IF n = 0 THEN origin ELSE F!Field(g[n - 1], frame[n])]
        BY <1>6, <1>7
    <2>2. g = [n \in 0 .. Len(frame) |-> g[n]]
        BY <2>1
    <2>3. \A n \in 0 .. Len(frame) : g[n] = IF n = 0 THEN origin ELSE F!Field(g[n - 1], frame[n])
        BY <2>1, Zenon
    <2>4. g[0] = origin /\ \A n \in 1 .. Len(frame) : g[n] = F!Field(g[n - 1], frame[n])
        BY <2>3
    <2> QED
        BY <2>2, <2>4, Zenon
<1> QED
    BY <1>7, <1>8 DEF ReadsOn

(* What Unified does to a text and to what is joined to it. *)

EndsWithCR(text) == text # <<>> /\ text[Len(text)] = F!CR
BeginsWithLF(text) == text # <<>> /\ text[1] = F!LF

LEMMA EndsOfLinesDiffer == F!LF # F!CR
    BY DEF F!LF, F!CR, F!Symbol

LEMMA UnifiedGrows ==
    ASSUME NEW T, F!LF \in T, NEW text \in Seq(T), NEW symbol \in T
    PROVE  /\ F!Unified(text) \in Seq(T) /\ F!Unified(Append(text, symbol)) \in Seq(T)
           /\ F!Unified(Append(text, symbol)) =
                IF symbol = F!CR THEN Append(F!Unified(text), F!LF)
                ELSE IF symbol = F!LF /\ EndsWithCR(text) THEN F!Unified(text)
                ELSE Append(F!Unified(text), symbol)
<1> DEFINE more == Append(text, symbol)
<1>1. /\ Len(text) \in Nat /\ more \in Seq(T) /\ Len(more) = Len(text) + 1
      /\ \A n \in 1 .. Len(text) : more[n] = text[n]
      /\ more[Len(text) + 1] = symbol
    BY AppendProperties, LenProperties
<1> HIDE DEF more
<1>2. PICK f : /\ f = F!Uniting(text) /\ f \in [0 .. Len(text) -> Seq(T)] /\ f[0] = <<>>
               /\ \A n \in 1 .. Len(text) : f[n] = Joined(text, n, f[n - 1])
    BY UnitingUnfolds
<1>3. PICK g : /\ g = F!Uniting(more) /\ g \in [0 .. Len(more) -> Seq(T)] /\ g[0] = <<>>
               /\ \A n \in 1 .. Len(more) : g[n] = Joined(more, n, g[n - 1])
    BY <1>1, UnitingUnfolds
<1>4. \A n \in 0 .. Len(text) : f[n] = g[n]
    <2>1. \A n \in 1 .. Len(text) : f[n - 1] = g[n - 1] => f[n] = g[n]
        <3> SUFFICES ASSUME NEW n \in 1 .. Len(text), f[n - 1] = g[n - 1] PROVE f[n] = g[n]
            OBVIOUS
        <3>1. f[n] = Joined(text, n, f[n - 1]) /\ g[n] = Joined(more, n, g[n - 1])
            BY <1>1, <1>2, <1>3
        <3>2. more[n] = text[n] /\ (n > 1 => more[n - 1] = text[n - 1])
            BY <1>1
        <3> QED
            BY <3>1, <3>2 DEF Joined
    <2>2. f[0] = g[0]
        BY <1>2, <1>3
    <2> QED
        BY <1>1, <2>1, <2>2, StepsAgree
<1>5. F!Unified(text) = f[Len(text)] /\ F!Unified(more) = g[Len(text) + 1]
    BY <1>1, <1>2, <1>3 DEF F!Unified
<1>6. F!Unified(more) = Joined(more, Len(text) + 1, F!Unified(text))
    <2>1. Len(text) + 1 \in 1 .. Len(more) /\ (Len(text) + 1) - 1 = Len(text) /\ Len(text) \in 0 .. Len(text)
        BY <1>1
    <2>2. g[Len(text) + 1] = Joined(more, Len(text) + 1, g[Len(text)])
        BY <1>3, <2>1
    <2> QED
        BY <1>4, <1>5, <2>1, <2>2
<1>7. F!Unified(text) \in Seq(T) /\ F!Unified(more) \in Seq(T)
    <2>1. Len(text) \in 0 .. Len(text) /\ Len(text) + 1 \in 0 .. Len(more)
        BY <1>1
    <2>2. f[Len(text)] \in Seq(T) /\ g[Len(text) + 1] \in Seq(T)
        BY <1>2, <1>3, <2>1
    <2> QED
        BY <1>5, <2>2
<1>8. EndsWithCR(text) <=> Len(text) + 1 > 1 /\ more[(Len(text) + 1) - 1] = F!CR
    <2>1. text # <<>> <=> Len(text) > 0
        BY <1>1, EmptySeq
    <2> QED
        BY <1>1, <2>1 DEF EndsWithCR
<1> QED
    BY <1>1, <1>6, <1>7, <1>8 DEF Joined, more

LEMMA UnifiedNothing == F!Unified(<<>>) = <<>>
<1>1. <<>> \in Seq({F!LF}) /\ Len(<<>>) = 0
    BY EmptySeq
<1>2. F!Uniting(<<>>)[0] = <<>>
    BY <1>1, UnitingUnfolds
<1> QED
    BY <1>1, <1>2 DEF F!Unified

\* Texts are unified one by one unless a CRLF is cut between them.
LEMMA UnifiedJoins ==
    ASSUME NEW T, F!LF \in T, NEW text \in Seq(T), NEW more \in Seq(T),
           ~(EndsWithCR(text) /\ BeginsWithLF(more))
    PROVE  F!Unified(text \o more) = F!Unified(text) \o F!Unified(more)
<1> DEFINE M == {rest \in Seq(T) : ~(EndsWithCR(text) /\ BeginsWithLF(rest))
                    => F!Unified(text \o rest) = F!Unified(text) \o F!Unified(rest)}
<1>1. F!Unified(text) \in Seq(T)
    BY UnifiedGrows
<1>2. <<>> \in M
    <2>1. text \o <<>> = text /\ F!Unified(text) \o <<>> = F!Unified(text) /\ <<>> \in Seq(T)
        BY <1>1, ConcatEmptySeq, EmptySeq
    <2> QED
        BY <2>1, UnifiedNothing
<1>3. \A rest \in Seq(T), symbol \in T : rest \in M => Append(rest, symbol) \in M
    <2> SUFFICES ASSUME NEW rest \in Seq(T), NEW symbol \in T, rest \in M,
                        ~(EndsWithCR(text) /\ BeginsWithLF(Append(rest, symbol)))
        PROVE  /\ Append(rest, symbol) \in Seq(T)
               /\ F!Unified(text \o Append(rest, symbol)) = F!Unified(text) \o F!Unified(Append(rest, symbol))
        OBVIOUS
    <2>1. /\ Append(rest, symbol) \in Seq(T) /\ Append(rest, symbol) # <<>>
          /\ Len(rest) \in Nat /\ Len(text) \in Nat /\ Len(Append(rest, symbol)) = Len(rest) + 1
          /\ \A n \in 1 .. Len(rest) : Append(rest, symbol)[n] = rest[n]
          /\ Append(rest, symbol)[Len(rest) + 1] = symbol
        BY AppendProperties, LenProperties
    <2>2. rest # <<>> <=> Len(rest) > 0
        BY <2>1, EmptySeq
    <2>3. ~(EndsWithCR(text) /\ BeginsWithLF(rest))
        BY <2>1, <2>2 DEF BeginsWithLF
    <2>4. F!Unified(text \o rest) = F!Unified(text) \o F!Unified(rest)
        BY <2>3
    <2>5. /\ text \o rest \in Seq(T) /\ Len(text \o rest) = Len(text) + Len(rest)
          /\ \A n \in 1 .. Len(text) + Len(rest) :
                (text \o rest)[n] = IF n <= Len(text) THEN text[n] ELSE rest[n - Len(text)]
        BY ConcatProperties
    <2>6. text \o Append(rest, symbol) = Append(text \o rest, symbol)
        <3>1. Append(rest, symbol) = rest \o <<symbol>> /\ <<symbol>> \in Seq(T)
            BY AppendIsConcat
        <3>2. Append(text \o rest, symbol) = (text \o rest) \o <<symbol>>
            BY <2>5, AppendIsConcat
        <3> QED
            BY <3>1, <3>2, ConcatAssociative
    <2>7. symbol = F!LF => (EndsWithCR(text \o rest) <=> EndsWithCR(rest))
        <3> SUFFICES ASSUME symbol = F!LF PROVE EndsWithCR(text \o rest) <=> EndsWithCR(rest)
            OBVIOUS
        <3>1. CASE rest = <<>>
            <4>1. BeginsWithLF(Append(rest, symbol))
                BY <3>1, <2>1, <2>2 DEF BeginsWithLF
            <4>2. text \o rest = text
                BY <3>1, ConcatEmptySeq
            <4> QED
                BY <3>1, <4>1, <4>2 DEF EndsWithCR
        <3>2. CASE rest # <<>>
            <4>1. (text \o rest)[Len(text \o rest)] = rest[Len(rest)]
                BY <3>2, <2>1, <2>2, <2>5
            <4>2. text \o rest # <<>>
                BY <3>2, <2>1, <2>2, <2>5, EmptySeq
            <4> QED
                BY <3>2, <4>1, <4>2 DEF EndsWithCR
        <3> QED
            BY <3>1, <3>2
    <2>8. F!Unified(rest) \in Seq(T)
        BY UnifiedGrows
    <2>9. \A last \in T : Append(F!Unified(text) \o F!Unified(rest), last) = F!Unified(text) \o Append(F!Unified(rest), last)
        <3> SUFFICES ASSUME NEW last \in T
            PROVE  Append(F!Unified(text) \o F!Unified(rest), last) = F!Unified(text) \o Append(F!Unified(rest), last)
            OBVIOUS
        <3>1. F!Unified(text) \o F!Unified(rest) \in Seq(T) /\ <<last>> \in Seq(T)
            BY <1>1, <2>8, ConcatProperties
        <3>2. Append(F!Unified(text) \o F!Unified(rest), last) = (F!Unified(text) \o F!Unified(rest)) \o <<last>>
            BY <3>1, AppendIsConcat
        <3>3. Append(F!Unified(rest), last) = F!Unified(rest) \o <<last>>
            BY <2>8, AppendIsConcat
        <3> QED
            BY <1>1, <2>8, <3>1, <3>2, <3>3, ConcatAssociative, SMTT(60)
    <2>10. F!Unified(Append(text \o rest, symbol)) =
                IF symbol = F!CR THEN Append(F!Unified(text \o rest), F!LF)
                ELSE IF symbol = F!LF /\ EndsWithCR(text \o rest) THEN F!Unified(text \o rest)
                ELSE Append(F!Unified(text \o rest), symbol)
        BY <2>5, UnifiedGrows
    <2>11. F!Unified(Append(rest, symbol)) =
                IF symbol = F!CR THEN Append(F!Unified(rest), F!LF)
                ELSE IF symbol = F!LF /\ EndsWithCR(rest) THEN F!Unified(rest)
                ELSE Append(F!Unified(rest), symbol)
        BY UnifiedGrows
    <2> QED
        BY <2>1, <2>4, <2>6, <2>7, <2>9, <2>10, <2>11
<1> HIDE DEF M
<1>4. Seq(T) \subseteq M
    BY <1>2, <1>3, SequenceInduction
<1> QED
    BY <1>4 DEF M

LEMMA OneSymbol ==
    ASSUME NEW T, NEW a \in T
    PROVE  /\ <<a>> \in Seq(T) /\ <<a>> # <<>> /\ Len(<<a>>) = 1 /\ <<a>>[1] = a
           /\ Append(<<>>, a) = <<a>>
<1>1. <<>> \in Seq(T) /\ Len(<<>>) = 0
    BY EmptySeq
<1>2. <<a>> \in Seq(T) /\ Len(<<a>>) = 1 /\ <<a>>[1] = a
    OBVIOUS
<1>3. <<a>> # <<>>
    BY <1>1, <1>2
<1>4. Append(<<>>, a) \in Seq(T) /\ Len(Append(<<>>, a)) = 1 /\ Append(<<>>, a)[1] = a
    BY <1>1, AppendProperties
<1>5. Append(<<>>, a) = <<a>>
    BY <1>2, <1>4, SeqEqual
<1> QED
    BY <1>2, <1>3, <1>5

LEMMA OneMore ==
    ASSUME NEW T, NEW a \in T, NEW b \in T
    PROVE  Append(<<a>>, b) = <<a, b>> /\ <<a>> \o <<b>> = <<a, b>>
<1>1. /\ <<a>> \in Seq(T) /\ Len(<<a>>) = 1 /\ <<a>>[1] = a
      /\ <<b>> \in Seq(T) /\ Len(<<b>>) = 1 /\ <<b>>[1] = b
    OBVIOUS
<1>2. <<a, b>> \in Seq(T) /\ Len(<<a, b>>) = 2 /\ <<a, b>>[1] = a /\ <<a, b>>[2] = b
    OBVIOUS
<1>3. Append(<<a>>, b) = <<a>> \o <<b>>
    BY <1>1, AppendIsConcat
<1>4. /\ <<a>> \o <<b>> \in Seq(T) /\ Len(<<a>> \o <<b>>) = 2
      /\ (<<a>> \o <<b>>)[1] = a /\ (<<a>> \o <<b>>)[2] = b
    <2>1. PICK x \in Seq(T), y \in Seq(T) : x = <<a>> /\ y = <<b>>
        BY <1>1
    <2>2. /\ x \o y \in Seq(T) /\ Len(x \o y) = Len(x) + Len(y)
          /\ \A i \in 1 .. Len(x) + Len(y) : (x \o y)[i] = IF i <= Len(x) THEN x[i] ELSE y[i - Len(x)]
        BY ConcatProperties
    <2>3. Len(x) = 1 /\ Len(y) = 1 /\ x[1] = a /\ y[1] = b
        BY <1>1, <2>1
    <2>4. x \o y \in Seq(T) /\ Len(x \o y) = 2 /\ (x \o y)[1] = a /\ (x \o y)[2] = b
        BY <2>2, <2>3
    <2> QED
        BY <2>1, <2>4
<1>5. <<a>> \o <<b>> = <<a, b>>
    <2>1. PICK x, y : x = <<a>> \o <<b>> /\ y = <<a, b>>
        OBVIOUS
    <2>2. /\ x \in Seq(T) /\ Len(x) = 2 /\ x[1] = a /\ x[2] = b
          /\ y \in Seq(T) /\ Len(y) = 2 /\ y[1] = a /\ y[2] = b
        BY <1>2, <1>4, <2>1
    <2>3. Len(x) = Len(y) /\ \A i \in 1 .. Len(x) : x[i] = y[i]
        BY <2>2
    <2>4. x = y
        BY <2>2, <2>3, SeqEqual
    <2> QED
        BY <2>1, <2>4
<1> QED
    BY ONLY <1>3, <1>5, Zenon

LEMMA TwoSymbols ==
    ASSUME NEW T, NEW a \in T, NEW b \in T
    PROVE  /\ <<a, b>> \in Seq(T) /\ Len(<<a, b>>) = 2 /\ <<a, b>>[1] = a /\ <<a, b>>[2] = b
           /\ <<a>> \o <<b>> = <<a, b>>
<1>1. <<a, b>> \in Seq(T) /\ Len(<<a, b>>) = 2 /\ <<a, b>>[1] = a /\ <<a, b>>[2] = b
    OBVIOUS
<1>2. <<a>> \o <<b>> = <<a, b>>
    BY OneMore, Zenon
<1> QED
    BY ONLY <1>1, <1>2, Zenon

(* What is written. *)

FieldNames == {"comment", "event", "id", "retry", "data"}
TextLines == {F!Symbol(field, value) : field \in FieldNames, value \in STRING}
PlainSymbols == TextLines \cup {F!LF, F!CR}
Mark == F!Symbol("bom", None)
Symbols == PlainSymbols \cup {Mark}

LEMMA SymbolsDiffer ==
    /\ F!LF \notin TextLines /\ F!CR \notin TextLines /\ F!LF # F!CR
    /\ Mark \notin PlainSymbols
    /\ \A symbol \in TextLines : F!IsLine(symbol)
    /\ ~F!IsLine(F!LF) /\ ~F!IsLine(F!CR) /\ ~F!IsLine(Mark)
<1>1. /\ F!LF.field = "lf" /\ F!CR.field = "cr" /\ Mark.field = "bom"
      /\ \A symbol \in TextLines : symbol.field \in FieldNames
    BY DEF TextLines, Mark, F!LF, F!CR, F!Symbol
<1>2. /\ F!LF \notin TextLines /\ F!CR \notin TextLines /\ Mark \notin TextLines
      /\ F!LF # F!CR /\ Mark # F!LF /\ Mark # F!CR
    BY <1>1 DEF FieldNames
<1> QED
    BY <1>1, <1>2 DEF PlainSymbols, FieldNames, F!IsLine

LEMMA EndingsAreOne ==
    ASSUME NEW ending \in F!Endings
    PROVE  /\ ending \in Seq(PlainSymbols)
           /\ F!Unified(ending) = <<F!LF>>
           /\ BeginsWithLF(ending) => ending = <<F!LF>>
<1>1. F!LF \in PlainSymbols /\ F!CR \in PlainSymbols
    BY DEF PlainSymbols
<1>2. F!LF # F!CR
    BY SymbolsDiffer
<1>3. F!Unified(<<F!LF>>) = <<F!LF>> /\ F!Unified(<<F!CR>>) = <<F!LF>>
    <2>1. <<>> \in Seq(PlainSymbols) /\ ~EndsWithCR(<<>>)
        BY EmptySeq DEF EndsWithCR
    <2>2. \A one \in PlainSymbols : Append(<<>>, one) = <<one>>
        BY OneSymbol
    <2>3. \A one \in PlainSymbols :
            F!Unified(Append(<<>>, one)) = IF one = F!CR THEN Append(<<>>, F!LF) ELSE Append(<<>>, one)
        BY <1>1, <2>1, UnifiedNothing, UnifiedGrows
    <2> QED
        BY <1>1, <1>2, <2>2, <2>3
<1>4. F!Unified(<<F!CR, F!LF>>) = <<F!LF>>
    <2>1. <<F!CR>> \in Seq(PlainSymbols) /\ EndsWithCR(<<F!CR>>)
        BY <1>1, OneSymbol DEF EndsWithCR
    <2>2. Append(<<F!CR>>, F!LF) = <<F!CR, F!LF>>
        BY <1>1, OneMore, Zenon
    <2>3. F!Unified(Append(<<F!CR>>, F!LF)) = F!Unified(<<F!CR>>)
        BY <1>1, <1>2, <2>1, UnifiedGrows
    <2> QED
        BY <1>3, <2>2, <2>3
<1>5. /\ ending \in Seq(PlainSymbols) /\ F!Unified(ending) = <<F!LF>>
      /\ BeginsWithLF(ending) => ending = <<F!LF>>
    <2>1. /\ <<F!LF>> \in Seq(PlainSymbols) /\ <<F!CR>> \in Seq(PlainSymbols)
          /\ <<F!CR>>[1] = F!CR
        BY <1>1, OneSymbol
    <2>2. <<F!CR, F!LF>> \in Seq(PlainSymbols) /\ <<F!CR, F!LF>>[1] = F!CR
        BY <1>1, TwoSymbols
    <2>3. CASE ending = <<F!LF>>
        BY <2>1, <2>3, <1>3
    <2>4. CASE ending = <<F!CR>>
        BY <2>1, <2>4, <1>2, <1>3 DEF BeginsWithLF
    <2>5. CASE ending = <<F!CR, F!LF>>
        BY <2>2, <2>5, <1>2, <1>4 DEF BeginsWithLF
    <2> QED
        BY <2>3, <2>4, <2>5 DEF F!Endings
<1> QED
    BY <1>5

LEMMA EndingsAreUnified ==
    ASSUME NEW ending \in F!Endings, NEW symbol \in TextLines
    PROVE  /\ ending \in Seq(PlainSymbols)
           /\ F!Unified(ending) = <<F!LF>>
           /\ F!Unified(<<symbol>> \o ending) = <<symbol, F!LF>>
           /\ <<symbol>> \o ending \in Seq(PlainSymbols) /\ ~BeginsWithLF(<<symbol>> \o ending)
           /\ BeginsWithLF(ending) => ending = <<F!LF>>
<1>1. F!LF \in PlainSymbols /\ F!CR \in PlainSymbols /\ symbol \in PlainSymbols
    BY DEF PlainSymbols
<1>2. symbol # F!LF /\ symbol # F!CR /\ F!LF # F!CR
    BY SymbolsDiffer
<1>3. F!Unified(<<symbol>>) = <<symbol>>
    <2>1. <<>> \in Seq(PlainSymbols) /\ ~EndsWithCR(<<>>)
        BY EmptySeq DEF EndsWithCR
    <2>2. \A one \in PlainSymbols : Append(<<>>, one) = <<one>>
        BY OneSymbol
    <2>3. \A one \in PlainSymbols :
            F!Unified(Append(<<>>, one)) = IF one = F!CR THEN Append(<<>>, F!LF) ELSE Append(<<>>, one)
        BY <1>1, <2>1, UnifiedNothing, UnifiedGrows
    <2> QED
        BY <1>1, <1>2, <2>2, <2>3
<1>5. /\ ending \in Seq(PlainSymbols) /\ F!Unified(ending) = <<F!LF>>
      /\ BeginsWithLF(ending) => ending = <<F!LF>>
    BY EndingsAreOne
<1>6. <<symbol>> \in Seq(PlainSymbols) /\ ~EndsWithCR(<<symbol>>)
    BY <1>1, <1>2, OneSymbol DEF EndsWithCR
<1>7. F!Unified(<<symbol>> \o ending) = <<symbol>> \o <<F!LF>>
    <2>1. PICK x : x = <<symbol>>
        OBVIOUS
    <2>2. x \in Seq(PlainSymbols) /\ ~EndsWithCR(x) /\ F!Unified(x) = <<symbol>>
        BY <1>3, <1>6, <2>1
    <2>3. F!Unified(x \o ending) = F!Unified(x) \o F!Unified(ending)
        BY <1>1, <1>5, <2>2, UnifiedJoins
    <2> QED
        BY <1>5, <2>1, <2>2, <2>3
<1>8. <<symbol>> \o <<F!LF>> = <<symbol, F!LF>>
    BY <1>1, TwoSymbols
<1>9. <<symbol>> \o ending \in Seq(PlainSymbols) /\ (<<symbol>> \o ending)[1] = symbol
    <2>1. Len(<<symbol>>) = 1 /\ <<symbol>>[1] = symbol /\ Len(ending) \in Nat
        BY <1>1, <1>5, OneSymbol, LenProperties
    <2>2. 1 \in 1 .. Len(<<symbol>>) + Len(ending)
        BY <2>1
    <2> QED
        BY <1>5, <1>6, <2>1, <2>2, ConcatProperties
<1> QED
    BY <1>2, <1>5, <1>7, <1>8, <1>9 DEF BeginsWithLF

LEMMA LaidIsUnified ==
    ASSUME NEW text \in Seq(TextLines), NEW ending \in F!Endings
    PROVE  \A n \in 0 .. Len(text) :
                LET united == F!Unified(F!Laid(text, ending)[n]) IN
                /\ F!Laid(text, ending)[n] \in Seq(PlainSymbols)
                /\ united \in Seq(PlainSymbols) /\ Len(united) = 2 * n
                /\ \A i \in 1 .. n : united[2 * i - 1] = text[i] /\ united[2 * i] = F!LF
<1> DEFINE Fine(n) ==
        LET united == F!Unified(F!Laid(text, ending)[n]) IN
        /\ F!Laid(text, ending)[n] \in Seq(PlainSymbols)
        /\ united \in Seq(PlainSymbols) /\ Len(united) = 2 * n
        /\ \A i \in 1 .. n : united[2 * i - 1] = text[i] /\ united[2 * i] = F!LF
<1> DEFINE M == {n \in Nat : n <= Len(text) => Fine(n)}
<1>1. /\ Len(text) \in Nat /\ \A n \in 1 .. Len(text) : text[n] \in TextLines
      /\ text \in Seq(PlainSymbols) /\ F!LF \in PlainSymbols
    BY LenProperties, ElementOfSeq, SeqMonotonic DEF PlainSymbols
<1>2. ending \in Seq(PlainSymbols)
    <2>1. /\ <<F!LF>> \in Seq(PlainSymbols) /\ <<F!CR>> \in Seq(PlainSymbols)
          /\ <<F!CR, F!LF>> \in Seq(PlainSymbols)
        BY OneSymbol, TwoSymbols DEF PlainSymbols
    <2> QED
        BY <2>1 DEF F!Endings
<1>3. PICK laid : /\ laid = F!Laid(text, ending)
                  /\ laid \in [0 .. Len(text) -> Seq(PlainSymbols)]
                  /\ laid[0] = <<>>
                  /\ \A n \in 1 .. Len(text) : laid[n] = laid[n - 1] \o <<text[n]>> \o ending
    BY <1>1, <1>2, LaidUnfolds
<1>4. 0 \in M
    BY <1>1, <1>3, UnifiedNothing, EmptySeq
<1>5. \A n \in Nat : n \in M => n + 1 \in M
    <2> SUFFICES ASSUME NEW n \in Nat, n \in M, n + 1 <= Len(text) PROVE Fine(n + 1)
        <3> HIDE DEF Fine
        <3> QED
            OBVIOUS
    <2>1. Fine(n) /\ n + 1 \in 1 .. Len(text) /\ n \in 0 .. Len(text)
        BY <1>1
    <2>2. PICK line : line = text[n + 1] /\ line \in TextLines /\ line \in PlainSymbols
        BY <1>1, <2>1 DEF PlainSymbols
    <2>3. laid[n + 1] = laid[n] \o (<<line>> \o ending)
        <3>1. laid[n + 1] = laid[(n + 1) - 1] \o <<text[n + 1]>> \o ending /\ (n + 1) - 1 = n
            BY <1>3, <2>1, SMTT(60)
        <3>2. laid[n] \in Seq(PlainSymbols) /\ <<line>> \in Seq(PlainSymbols)
            BY <1>3, <2>1, <2>2, OneSymbol
        <3>3. \A x, y, z \in Seq(PlainSymbols) : (x \o y) \o z = x \o (y \o z)
            BY ONLY ConcatAssociative
        <3>4. laid[n + 1] = (laid[n] \o <<line>>) \o ending
            BY <2>2, <3>1
        <3>5. (laid[n] \o <<line>>) \o ending = laid[n] \o (<<line>> \o ending)
            BY <1>2, <3>2, <3>3, ZenonT(60)
        <3> QED
            BY <3>4, <3>5, Zenon
    <2>4. /\ <<line>> \o ending \in Seq(PlainSymbols) /\ ~BeginsWithLF(<<line>> \o ending)
          /\ F!Unified(<<line>> \o ending) = <<line, F!LF>>
        BY <2>2, EndingsAreUnified
    <2>5. laid[n] \in Seq(PlainSymbols) /\ laid[n + 1] \in Seq(PlainSymbols)
        <3>1. n \in 0 .. Len(text) /\ n + 1 \in 0 .. Len(text)
            BY <1>1, <2>1
        <3> QED
            BY <1>3, <3>1
    <2>6. F!Unified(laid[n + 1]) = F!Unified(laid[n]) \o <<line, F!LF>>
        BY <1>1, <2>3, <2>4, <2>5, UnifiedJoins, ZenonT(60)
    <2>7. PICK united : united = F!Unified(laid[n])
        OBVIOUS
    <2>8. /\ united \in Seq(PlainSymbols) /\ Len(united) = 2 * n
          /\ \A i \in 1 .. n : united[2 * i - 1] = text[i] /\ united[2 * i] = F!LF
        BY <1>3, <2>1, <2>7
    <2>9. PICK last : /\ last = <<line, F!LF>> /\ last \in Seq(PlainSymbols) /\ Len(last) = 2
                      /\ last[1] = line /\ last[2] = F!LF
        <3>1. PICK last : last = <<line, F!LF>>
            OBVIOUS
        <3>2. /\ last \in Seq(PlainSymbols) /\ Len(last) = 2
              /\ last[1] = line /\ last[2] = F!LF
            BY <1>1, <2>2, <3>1, TwoSymbols
        <3> QED
            BY <3>1, <3>2
    <2>10. /\ united \o last \in Seq(PlainSymbols)
           /\ Len(united \o last) = 2 * (n + 1)
           /\ \A i \in 1 .. 2 * n + 2 : (united \o last)[i] =
                IF i <= 2 * n THEN united[i] ELSE last[i - 2 * n]
        <3>1. Len(united) + Len(last) = 2 * n + 2 /\ Len(united) = 2 * n
            BY <2>8, <2>9
        <3>2. /\ united \o last \in Seq(PlainSymbols) /\ Len(united \o last) = Len(united) + Len(last)
              /\ \A i \in 1 .. Len(united) + Len(last) :
                    (united \o last)[i] = IF i <= Len(united) THEN united[i] ELSE last[i - Len(united)]
            BY <2>8, <2>9, ConcatProperties
        <3> QED
            BY <3>1, <3>2
    <2>11. \A i \in 1 .. n + 1 : /\ (united \o last)[2 * i - 1] = text[i]
                                 /\ (united \o last)[2 * i] = F!LF
        <3> SUFFICES ASSUME NEW i \in 1 .. n + 1
            PROVE  /\ (united \o last)[2 * i - 1] = text[i]
                   /\ (united \o last)[2 * i] = F!LF
            OBVIOUS
        <3>1. CASE i = n + 1
            <4>1. 2 * i - 1 \in 1 .. 2 * n + 2 /\ 2 * i \in 1 .. 2 * n + 2
                  /\ (2 * i - 1) - 2 * n = 1 /\ 2 * i - 2 * n = 2 /\ ~(2 * i - 1 <= 2 * n) /\ ~(2 * i <= 2 * n)
                BY ONLY n \in Nat, <3>1
            <4>2. /\ (united \o last)[2 * i - 1] = last[1]
                  /\ (united \o last)[2 * i] = last[2]
                BY <2>10, <4>1
            <4>3. last[1] = text[i] /\ last[2] = F!LF
                BY <2>2, <2>9, <3>1
            <4> QED
                BY <4>2, <4>3, Zenon
        <3>2. CASE i \in 1 .. n
            <4>1. 2 * i - 1 \in 1 .. 2 * n + 2 /\ 2 * i \in 1 .. 2 * n + 2 /\ 2 * i - 1 <= 2 * n /\ 2 * i <= 2 * n
                BY ONLY n \in Nat, <3>2
            <4>2. /\ (united \o last)[2 * i - 1] = united[2 * i - 1]
                  /\ (united \o last)[2 * i] = united[2 * i]
                BY <2>10, <4>1
            <4>3. united[2 * i - 1] = text[i] /\ united[2 * i] = F!LF
                BY <2>8, <3>2, Zenon
            <4> QED
                BY <4>2, <4>3, Zenon
        <3>3. i = n + 1 \/ i \in 1 .. n
            OBVIOUS
        <3> QED
            BY <3>1, <3>2, <3>3, Zenon
    <2> QED
        BY <1>3, <2>5, <2>6, <2>7, <2>9, <2>10, <2>11
<1> HIDE DEF M
<1>6. Nat \subseteq M
    BY <1>4, <1>5, NumberInduction
<1>7. \A n \in 0 .. Len(text) : Fine(n)
    <2> HIDE DEF Fine
    <2> QED
        BY <1>1, <1>6 DEF M
<1> QED
    BY <1>7

\* all is one sequence after another.
Follows(all, s, t) ==
    /\ Len(all) = Len(s) + Len(t)
    /\ Len(s) \in Nat /\ Len(t) \in Nat /\ Len(all) \in Nat
    /\ \A n \in 1 .. Len(s) : all[n] = s[n]
    /\ \A n \in 1 .. Len(t) : all[Len(s) + n] = t[n]

LEMMA TwoJoined ==
    ASSUME NEW T, NEW s \in Seq(T), NEW t \in Seq(T), NEW all, all = s \o t
    PROVE  all \in Seq(T) /\ Follows(all, s, t)
<1>1. Len(s) \in Nat /\ Len(t) \in Nat
    BY LenProperties
<1>2. /\ all \in Seq(T) /\ Len(all) = Len(s) + Len(t)
      /\ \A n \in 1 .. Len(s) + Len(t) : all[n] = IF n <= Len(s) THEN s[n] ELSE t[n - Len(s)]
    BY ConcatProperties
<1>3. \A n \in 1 .. Len(t) : all[Len(s) + n] = t[n]
    <2> SUFFICES ASSUME NEW n \in 1 .. Len(t) PROVE all[Len(s) + n] = t[n]
        OBVIOUS
    <2>1. Len(s) + n \in 1 .. Len(s) + Len(t) /\ ~(Len(s) + n <= Len(s)) /\ (Len(s) + n) - Len(s) = n
        BY <1>1
    <2> QED
        BY <1>2, <2>1
<1> QED
    BY <1>1, <1>2, <1>3 DEF Follows

\* all is five sequences one after another.
FollowsFive(all, a, b, c, d, x) ==
    /\ Len(all) = Len(a) + Len(b) + Len(c) + Len(d) + Len(x)
    /\ \A n \in 1 .. Len(a) : all[n] = a[n]
    /\ \A n \in 1 .. Len(b) : all[Len(a) + n] = b[n]
    /\ \A n \in 1 .. Len(c) : all[Len(a) + Len(b) + n] = c[n]
    /\ \A n \in 1 .. Len(d) : all[Len(a) + Len(b) + Len(c) + n] = d[n]
    /\ \A n \in 1 .. Len(x) : all[Len(a) + Len(b) + Len(c) + Len(d) + n] = x[n]

LEMMA FiveJoined ==
    ASSUME NEW T, NEW a \in Seq(T), NEW b \in Seq(T), NEW c \in Seq(T), NEW d \in Seq(T), NEW x \in Seq(T),
           NEW all, all = a \o b \o c \o d \o x
    PROVE  all \in Seq(T) /\ FollowsFive(all, a, b, c, d, x)
<1>1. PICK two : two = a \o b
    OBVIOUS
<1>2. PICK three : three = two \o c
    OBVIOUS
<1>3. PICK four : four = three \o d
    OBVIOUS
<1>4. all = four \o x
    BY <1>1, <1>2, <1>3
<1>5. two \in Seq(T) /\ Follows(two, a, b)
    BY <1>1, TwoJoined
<1>6. three \in Seq(T) /\ Follows(three, two, c)
    BY <1>2, <1>5, TwoJoined
<1>7. four \in Seq(T) /\ Follows(four, three, d)
    BY <1>3, <1>6, TwoJoined
<1>8. all \in Seq(T) /\ Follows(all, four, x)
    BY <1>4, <1>7, TwoJoined
<1>9. /\ Len(two) = Len(a) + Len(b) /\ Len(three) = Len(two) + Len(c)
      /\ Len(four) = Len(three) + Len(d) /\ Len(all) = Len(four) + Len(x)
      /\ Len(a) \in Nat /\ Len(b) \in Nat /\ Len(c) \in Nat /\ Len(d) \in Nat /\ Len(x) \in Nat
    BY <1>5, <1>6, <1>7, <1>8 DEF Follows
<1>10. /\ \A n \in 1 .. Len(a) : two[n] = a[n]
       /\ \A n \in 1 .. Len(b) : two[Len(a) + n] = b[n]
       /\ \A n \in 1 .. Len(two) : three[n] = two[n]
       /\ \A n \in 1 .. Len(c) : three[Len(two) + n] = c[n]
       /\ \A n \in 1 .. Len(three) : four[n] = three[n]
       /\ \A n \in 1 .. Len(d) : four[Len(three) + n] = d[n]
       /\ \A n \in 1 .. Len(four) : all[n] = four[n]
       /\ \A n \in 1 .. Len(x) : all[Len(four) + n] = x[n]
    BY <1>5, <1>6, <1>7, <1>8 DEF Follows
<1>12. \A n \in 1 .. Len(a) : all[n] = a[n]
    <2> SUFFICES ASSUME NEW n \in 1 .. Len(a) PROVE all[n] = a[n]
        OBVIOUS
    <2>1. n \in 1 .. Len(two) /\ n \in 1 .. Len(three) /\ n \in 1 .. Len(four)
        BY <1>9
    <2> QED
        BY <1>10, <2>1
<1>13. \A n \in 1 .. Len(b) : all[Len(a) + n] = b[n]
    <2> SUFFICES ASSUME NEW n \in 1 .. Len(b) PROVE all[Len(a) + n] = b[n]
        OBVIOUS
    <2>1. Len(a) + n \in 1 .. Len(two) /\ Len(a) + n \in 1 .. Len(three) /\ Len(a) + n \in 1 .. Len(four)
        BY <1>9
    <2> QED
        BY <1>10, <2>1
<1>14. \A n \in 1 .. Len(c) : all[Len(a) + Len(b) + n] = c[n]
    <2> SUFFICES ASSUME NEW n \in 1 .. Len(c) PROVE all[Len(a) + Len(b) + n] = c[n]
        OBVIOUS
    <2>1. /\ Len(a) + Len(b) + n = Len(two) + n
          /\ Len(two) + n \in 1 .. Len(three) /\ Len(two) + n \in 1 .. Len(four)
        BY <1>9
    <2> QED
        BY <1>10, <2>1
<1>15. \A n \in 1 .. Len(d) : all[Len(a) + Len(b) + Len(c) + n] = d[n]
    <2> SUFFICES ASSUME NEW n \in 1 .. Len(d) PROVE all[Len(a) + Len(b) + Len(c) + n] = d[n]
        OBVIOUS
    <2>1. Len(a) + Len(b) + Len(c) + n = Len(three) + n /\ Len(three) + n \in 1 .. Len(four)
        BY <1>9
    <2> QED
        BY <1>10, <2>1
<1>16. \A n \in 1 .. Len(x) : all[Len(a) + Len(b) + Len(c) + Len(d) + n] = x[n]
    <2> SUFFICES ASSUME NEW n \in 1 .. Len(x) PROVE all[Len(a) + Len(b) + Len(c) + Len(d) + n] = x[n]
        OBVIOUS
    <2>1. Len(a) + Len(b) + Len(c) + Len(d) + n = Len(four) + n
        BY <1>9
    <2> QED
        BY <1>10, <2>1
<1>17. Len(all) = Len(a) + Len(b) + Len(c) + Len(d) + Len(x)
    BY <1>9
<1> QED
    BY <1>8, <1>12, <1>13, <1>14, <1>15, <1>16, <1>17 DEF FollowsFive

\* How many lines an event has before those of its data, and of each kind.
Counted(text) == IF text = None THEN 0 ELSE Len(text)
Given(value) == IF value = None THEN 0 ELSE 1
BeforeEvent(e) == Counted(e.comment)
BeforeId(e) == BeforeEvent(e) + Given(e.event)
BeforeRetry(e) == BeforeId(e) + Given(e.id)
BeforeData(e) == BeforeRetry(e) + Given(e.retry)

LEMMA LinesAre ==
    ASSUME NEW field \in FieldNames, NEW text, text = None \/ text \in Seq(STRING) \ {<<>>}
    PROVE  /\ F!lines(field, text) \in Seq(TextLines) /\ Len(F!lines(field, text)) = Counted(text)
           /\ Counted(text) \in Nat
           /\ \A n \in 1 .. Counted(text) : F!lines(field, text)[n] = F!Symbol(field, text[n])
<1>1. CASE text = None
    BY <1>1, EmptySeq DEF F!lines, Counted
<1>2. CASE text # None
    <2>1. /\ Len(text) \in Nat /\ DOMAIN text = 1 .. Len(text)
          /\ \A n \in 1 .. Len(text) : text[n] \in STRING
        BY <1>2, LenProperties, ElementOfSeq
    <2>2. F!lines(field, text) = [n \in 1 .. Len(text) |-> F!Symbol(field, text[n])]
        BY <1>2, <2>1 DEF F!lines
    <2>3. \A n \in 1 .. Len(text) : F!Symbol(field, text[n]) \in TextLines
        BY <2>1 DEF TextLines
    <2>4. F!lines(field, text) \in [1 .. Len(text) -> TextLines]
        BY <2>2, <2>3
    <2>5. F!lines(field, text) \in Seq(TextLines) /\ Len(F!lines(field, text)) = Len(text)
        BY <2>1, <2>2, <2>4
    <2> QED
        BY <1>2, <2>1, <2>2, <2>5 DEF Counted
<1> QED
    BY <1>1, <1>2

LEMMA OneIs ==
    ASSUME NEW field \in FieldNames, NEW value, value = None \/ value \in STRING
    PROVE  /\ F!one(field, value) \in Seq(TextLines) /\ Len(F!one(field, value)) = Given(value)
           /\ value # None => F!one(field, value)[1] = F!Symbol(field, value)
<1>1. CASE value = None
    BY <1>1, EmptySeq DEF F!one, Given
<1>2. CASE value # None
    <2>1. F!Symbol(field, value) \in TextLines
        BY <1>2 DEF TextLines
    <2>2. F!one(field, value) = <<F!Symbol(field, value)>>
        BY <1>2 DEF F!one
    <2> QED
        BY <1>2, <2>1, <2>2, OneSymbol DEF Given
<1> QED
    BY <1>1, <1>2

LEMMA EventLinesAre ==
    ASSUME NEW e \in Events, NEW all, all = F!EventLines(e)
    PROVE  /\ all \in Seq(TextLines) /\ Len(all) = BeforeData(e) + Counted(e.data)
           /\ BeforeEvent(e) \in Nat /\ Counted(e.data) \in Nat
           /\ \A n \in 1 .. BeforeEvent(e) : all[n].field = "comment"
           /\ e.event # None => all[BeforeEvent(e) + 1] = F!Symbol("event", e.event)
           /\ e.id # None => all[BeforeId(e) + 1] = F!Symbol("id", e.id)
           /\ e.retry # None => all[BeforeRetry(e) + 1] = F!Symbol("retry", e.retry)
           /\ \A n \in 1 .. Counted(e.data) : all[BeforeData(e) + n] = F!Symbol("data", e.data[n])
<1>1. /\ \A value \in {e.event, e.id, e.retry} : value = None \/ value \in STRING
      /\ \A text \in {e.comment, e.data} : text = None \/ text \in Seq(STRING) \ {<<>>}
    BY FramesConstants
<1>2. "comment" \in FieldNames /\ "event" \in FieldNames /\ "id" \in FieldNames
      /\ "retry" \in FieldNames /\ "data" \in FieldNames
    BY DEF FieldNames
<1>3. PICK a, b, c, d, x : /\ a = F!lines("comment", e.comment) /\ b = F!one("event", e.event)
                           /\ c = F!one("id", e.id) /\ d = F!one("retry", e.retry)
                           /\ x = F!lines("data", e.data)
    OBVIOUS
<1>4. /\ a \in Seq(TextLines) /\ Len(a) = BeforeEvent(e) /\ BeforeEvent(e) \in Nat
      /\ \A n \in 1 .. BeforeEvent(e) : a[n] = F!Symbol("comment", e.comment[n])
    BY <1>1, <1>2, <1>3, LinesAre DEF BeforeEvent
<1>5. /\ b \in Seq(TextLines) /\ Len(b) = Given(e.event)
      /\ e.event # None => b[1] = F!Symbol("event", e.event)
    BY <1>1, <1>2, <1>3, OneIs
<1>6. /\ c \in Seq(TextLines) /\ Len(c) = Given(e.id)
      /\ e.id # None => c[1] = F!Symbol("id", e.id)
    BY <1>1, <1>2, <1>3, OneIs
<1>7. /\ d \in Seq(TextLines) /\ Len(d) = Given(e.retry)
      /\ e.retry # None => d[1] = F!Symbol("retry", e.retry)
    BY <1>1, <1>2, <1>3, OneIs
<1>8. /\ x \in Seq(TextLines) /\ Len(x) = Counted(e.data) /\ Counted(e.data) \in Nat
      /\ \A n \in 1 .. Counted(e.data) : x[n] = F!Symbol("data", e.data[n])
    BY <1>1, <1>2, <1>3, LinesAre
<1>9. all = a \o b \o c \o d \o x
    BY <1>3 DEF F!EventLines
<1>10. all \in Seq(TextLines) /\ FollowsFive(all, a, b, c, d, x)
    BY <1>4, <1>5, <1>6, <1>7, <1>8, <1>9, FiveJoined
<1>11. /\ Len(a) + Len(b) = BeforeId(e) /\ Len(a) + Len(b) + Len(c) = BeforeRetry(e)
       /\ Len(a) + Len(b) + Len(c) + Len(d) = BeforeData(e)
    BY <1>4, <1>5, <1>6, <1>7 DEF BeforeId, BeforeRetry, BeforeData
<1>12. \A n \in 1 .. BeforeEvent(e) : all[n].field = "comment"
    BY <1>4, <1>10 DEF F!Symbol, FollowsFive
<1>13. e.event # None => all[BeforeEvent(e) + 1] = F!Symbol("event", e.event)
    BY <1>4, <1>5, <1>10 DEF Given, FollowsFive
<1>14. e.id # None => all[BeforeId(e) + 1] = F!Symbol("id", e.id)
    BY <1>6, <1>10, <1>11 DEF Given, FollowsFive
<1>15. e.retry # None => all[BeforeRetry(e) + 1] = F!Symbol("retry", e.retry)
    BY <1>7, <1>10, <1>11 DEF Given, FollowsFive
<1>16. \A n \in 1 .. Counted(e.data) : all[BeforeData(e) + n] = F!Symbol("data", e.data[n])
    BY <1>8, <1>10, <1>11 DEF FollowsFive
<1> QED
    BY <1>4, <1>8, <1>10, <1>11, <1>12, <1>13, <1>14, <1>15, <1>16 DEF FollowsFive

\* A line and its ending come after what is there.
AddsALine(before, after, line, ending) ==
    \E x \in Seq(PlainSymbols), y \in Seq(PlainSymbols) :
        x = before /\ Len(y) = 1 /\ y[1] = line /\ after = (x \o y) \o ending

LEMMA LaidBeginsWithALine ==
    ASSUME NEW text \in Seq(TextLines), NEW ending \in Seq(PlainSymbols)
    PROVE  \A n \in 1 .. Len(text) : F!Laid(text, ending)[n] # <<>> /\ F!Laid(text, ending)[n][1] = text[1]
<1> DEFINE M == {n \in Nat : n + 1 <= Len(text) =>
                    F!Laid(text, ending)[n + 1] # <<>> /\ F!Laid(text, ending)[n + 1][1] = text[1]}
<1>1. /\ Len(text) \in Nat /\ text \in Seq(PlainSymbols)
      /\ \A n \in 1 .. Len(text) : text[n] \in PlainSymbols
    <2>1. TextLines \subseteq PlainSymbols
        BY DEF PlainSymbols
    <2>2. text \in Seq(PlainSymbols)
        BY <2>1, SeqMonotonic
    <2> QED
        BY <2>2, LenProperties, ElementOfSeq
<1>2. PICK laid : /\ laid = F!Laid(text, ending)
                  /\ laid \in [0 .. Len(text) -> Seq(PlainSymbols)]
                  /\ laid[0] = <<>>
                  /\ \A n \in 1 .. Len(text) : laid[n] = laid[n - 1] \o <<text[n]>> \o ending
    BY <1>1, LaidUnfolds
<1>3. \A n \in 1 .. Len(text) : AddsALine(laid[n - 1], laid[n], text[n], ending)
    <2> SUFFICES ASSUME NEW n \in 1 .. Len(text)
        PROVE  AddsALine(laid[n - 1], laid[n], text[n], ending)
        OBVIOUS
    <2>1. n - 1 \in 0 .. Len(text)
        BY <1>1
    <2>2. laid[n - 1] \in Seq(PlainSymbols)
        BY <1>2, <2>1
    <2>3. <<text[n]>> \in Seq(PlainSymbols) /\ Len(<<text[n]>>) = 1 /\ <<text[n]>>[1] = text[n]
        BY <1>1, OneSymbol
    <2>4. laid[n] = (laid[n - 1] \o <<text[n]>>) \o ending
        BY <1>2
    <2> QED
        BY <2>2, <2>3, <2>4, Zenon DEF AddsALine
<1>4. 0 \in M
    <2> SUFFICES ASSUME 1 <= Len(text) PROVE laid[1] # <<>> /\ laid[1][1] = text[1]
        BY <1>2
    <2>1. 1 \in 1 .. Len(text)
        BY <1>1
    <2>2. PICK x \in Seq(PlainSymbols), y \in Seq(PlainSymbols) :
            x = <<>> /\ Len(y) = 1 /\ y[1] = text[1] /\ laid[1] = (x \o y) \o ending
        <3>1. AddsALine(laid[1 - 1], laid[1], text[1], ending) /\ 1 - 1 = 0
            BY <1>3, <2>1
        <3> QED
            BY <1>2, <3>1 DEF AddsALine
    <2>3. x \o y = y
        BY <2>2, ConcatEmptySeq
    <2>4. PICK z : z = y \o ending
        OBVIOUS
    <2>5. z \in Seq(PlainSymbols) /\ Follows(z, y, ending)
        BY <2>4, TwoJoined
    <2>6. z[1] = y[1] /\ Len(z) > 0
        BY <2>2, <2>5 DEF Follows
    <2>7. z # <<>>
        BY <2>6, EmptySeq
    <2> QED
        BY <2>2, <2>3, <2>4, <2>6, <2>7
<1>5. \A n \in Nat : n \in M => n + 1 \in M
    <2> SUFFICES ASSUME NEW n \in Nat, n \in M, (n + 1) + 1 <= Len(text)
        PROVE  laid[(n + 1) + 1] # <<>> /\ laid[(n + 1) + 1][1] = text[1]
        BY <1>2
    <2>1. /\ n + 1 <= Len(text) /\ (n + 1) + 1 \in 1 .. Len(text) /\ ((n + 1) + 1) - 1 = n + 1
          /\ n + 1 \in 0 .. Len(text)
        BY <1>1
    <2>2. laid[n + 1] # <<>> /\ laid[n + 1][1] = text[1] /\ laid[n + 1] \in Seq(PlainSymbols)
        BY <1>2, <2>1
    <2>3. PICK x \in Seq(PlainSymbols), y \in Seq(PlainSymbols) :
            x = laid[n + 1] /\ Len(y) = 1 /\ laid[(n + 1) + 1] = (x \o y) \o ending
        <3>1. AddsALine(laid[((n + 1) + 1) - 1], laid[(n + 1) + 1], text[(n + 1) + 1], ending)
            BY <1>3, <2>1
        <3> QED
            BY <2>1, <3>1 DEF AddsALine
    <2>4. PICK z : z = x \o y
        OBVIOUS
    <2>5. z \in Seq(PlainSymbols) /\ Follows(z, x, y)
        BY <2>4, TwoJoined
    <2>6. PICK all : all = z \o ending
        OBVIOUS
    <2>7. all \in Seq(PlainSymbols) /\ Follows(all, z, ending)
        BY <2>5, <2>6, TwoJoined
    <2>8. Len(x) > 0 /\ Len(x) \in Nat
        BY <2>2, <2>3, EmptySeq, LenProperties
    <2>9. z[1] = x[1] /\ Len(z) > 0
        BY <2>5, <2>8 DEF Follows
    <2>10. all[1] = z[1] /\ Len(all) > 0
        BY <2>7, <2>9 DEF Follows
    <2>11. all # <<>>
        BY <2>10, EmptySeq
    <2> QED
        BY <2>2, <2>3, <2>4, <2>6, <2>9, <2>10, <2>11
<1> HIDE DEF M
<1>6. Nat \subseteq M
    BY <1>4, <1>5, NumberInduction
<1>7. \A n \in 1 .. Len(text) : n - 1 \in M /\ (n - 1) + 1 = n /\ n <= Len(text)
    BY <1>1, <1>6
<1> QED
    <2> SUFFICES ASSUME NEW n \in 1 .. Len(text)
                 PROVE  F!Laid(text, ending)[n] # <<>> /\ F!Laid(text, ending)[n][1] = text[1]
        OBVIOUS
    <2>1. PICK m : m = n - 1
        OBVIOUS
    <2>2. m \in M /\ m + 1 = n /\ m + 1 <= Len(text)
        BY <1>7, <2>1
    <2>3. F!Laid(text, ending)[m + 1] # <<>> /\ F!Laid(text, ending)[m + 1][1] = text[1]
        BY ONLY <2>2 DEF M
    <2> QED
        BY ONLY <2>2, <2>3

\* The lines of an event with an LF after each and one at the end.
IsBlock(united, all) ==
    /\ Len(united) = 2 * Len(all) + 1
    /\ \A i \in 1 .. Len(all) : united[2 * i - 1] = all[i] /\ united[2 * i] = F!LF
    /\ united[2 * Len(all) + 1] = F!LF

LEMMA WrittenIsBlock ==
    ASSUME NEW e \in Events, NEW ending \in F!Endings, NEW all, all = F!EventLines(e),
           NEW written, written = F!to_bytes(e, ending)
    PROVE  /\ written \in Seq(PlainSymbols) /\ F!Unified(written) \in Seq(PlainSymbols)
           /\ IsBlock(F!Unified(written), all)
           /\ BeginsWithLF(written) => all = <<>> /\ F!Unified(written) = <<F!LF>> /\ written = <<F!LF>>
<1>1. /\ all \in Seq(TextLines) /\ Len(all) \in Nat
      /\ \A n \in 1 .. Len(all) : all[n] \in TextLines /\ all[n] \in PlainSymbols
      /\ F!LF \in PlainSymbols /\ all \in Seq(PlainSymbols)
    <2>1. all \in Seq(TextLines)
        BY EventLinesAre
    <2>2. TextLines \subseteq PlainSymbols /\ F!LF \in PlainSymbols
        BY DEF PlainSymbols
    <2>3. all \in Seq(PlainSymbols)
        BY <2>1, <2>2, SeqMonotonic
    <2> QED
        BY <2>1, <2>2, <2>3, LenProperties, ElementOfSeq
<1>2. /\ ending \in Seq(PlainSymbols) /\ F!Unified(ending) = <<F!LF>>
      /\ BeginsWithLF(ending) => ending = <<F!LF>>
    BY EndingsAreOne
<1>3. PICK laid : laid = F!Laid(all, ending)
    OBVIOUS
<1>4. /\ laid \in [0 .. Len(all) -> Seq(PlainSymbols)] /\ laid[0] = <<>>
      /\ \A n \in 1 .. Len(all) : laid[n] = laid[n - 1] \o <<all[n]>> \o ending
    BY <1>1, <1>2, <1>3, LaidUnfolds
<1>5. PICK front : front = laid[Len(all)]
    OBVIOUS
<1>6. front \in Seq(PlainSymbols) /\ written = front \o ending
    <2>1. Len(all) \in 0 .. Len(all)
        BY <1>1
    <2> QED
        BY <1>3, <1>4, <1>5, <2>1 DEF F!to_bytes
<1>7. PICK united : united = F!Unified(front)
    OBVIOUS
<1>8. /\ united \in Seq(PlainSymbols) /\ Len(united) = 2 * Len(all)
      /\ \A i \in 1 .. Len(all) : united[2 * i - 1] = all[i] /\ united[2 * i] = F!LF
    <2>1. Len(all) \in 0 .. Len(all)
        BY <1>1
    <2> QED
        BY <1>1, <1>3, <1>5, <1>7, <2>1, LaidIsUnified
<1>9. ~(EndsWithCR(front) /\ BeginsWithLF(ending))
    <2> SUFFICES ASSUME EndsWithCR(front), ending = <<F!LF>> PROVE FALSE
        BY <1>2
    <2>1. Len(all) # 0
        BY <1>4, <1>5 DEF EndsWithCR
    <2>2. Len(all) \in 1 .. Len(all) /\ Len(all) - 1 \in 0 .. Len(all)
        BY <1>1, <2>1
    <2>3. PICK x : x = laid[Len(all) - 1] \o <<all[Len(all)]>>
        OBVIOUS
    <2>4. x \in Seq(PlainSymbols)
        <3>1. laid[Len(all) - 1] \in Seq(PlainSymbols) /\ <<all[Len(all)]>> \in Seq(PlainSymbols)
            BY <1>1, <1>4, <2>2, OneSymbol
        <3> QED
            BY <2>3, <3>1, ConcatProperties
    <2>5. front = x \o ending
        BY <1>4, <1>5, <2>2, <2>3
    <2>6. Follows(front, x, ending)
        BY <1>2, <2>4, <2>5, TwoJoined
    <2>7. Len(ending) = 1 /\ ending[1] = F!LF
        BY <1>1, OneSymbol
    <2>8. front[Len(x) + 1] = ending[1] /\ Len(front) = Len(x) + 1
        BY <2>6, <2>7 DEF Follows
    <2> QED
        BY <2>7, <2>8, EndsOfLinesDiffer DEF EndsWithCR
<1>10. F!Unified(written) = united \o <<F!LF>>
    BY <1>1, <1>2, <1>6, <1>7, <1>9, UnifiedJoins
<1>11. PICK last : last = <<F!LF>> /\ last \in Seq(PlainSymbols) /\ Len(last) = 1 /\ last[1] = F!LF
    <2>1. <<F!LF>> \in Seq(PlainSymbols) /\ Len(<<F!LF>>) = 1 /\ <<F!LF>>[1] = F!LF
        BY <1>1, OneSymbol
    <2> QED
        BY <2>1
<1>12. PICK final : final = F!Unified(written)
    OBVIOUS
<1>13. final \in Seq(PlainSymbols) /\ Follows(final, united, last)
    BY <1>8, <1>10, <1>11, <1>12, TwoJoined
<1>14. IsBlock(final, all)
    <2>1. Len(final) = 2 * Len(all) + 1
        BY <1>8, <1>11, <1>13 DEF Follows
    <2>2. final[2 * Len(all) + 1] = F!LF
        BY <1>1, <1>8, <1>11, <1>13 DEF Follows
    <2>3. ASSUME NEW i \in 1 .. Len(all) PROVE final[2 * i - 1] = all[i] /\ final[2 * i] = F!LF
        <3>1. 2 * i - 1 \in 1 .. Len(united) /\ 2 * i \in 1 .. Len(united)
            BY <1>1, <1>8
        <3> QED
            BY <1>8, <1>13, <3>1 DEF Follows
    <2> QED
        BY <2>1, <2>2, <2>3 DEF IsBlock
<1>15. ASSUME BeginsWithLF(written) PROVE all = <<>> /\ F!Unified(written) = <<F!LF>> /\ written = <<F!LF>>
    <2>1. CASE Len(all) = 0
        <3>1. front = <<>> /\ all = <<>>
            BY <1>1, <1>4, <1>5, <2>1, EmptySeq
        <3>2. written = ending
            BY <1>2, <1>6, <3>1, ConcatEmptySeq
        <3> QED
            BY <1>2, <1>15, <3>1, <3>2
    <2>2. CASE Len(all) # 0
        <3>1. Len(all) \in 1 .. Len(all) /\ 1 \in 1 .. Len(all)
            BY <1>1, <2>2
        <3>2. front # <<>> /\ front[1] = all[1]
            BY <1>1, <1>2, <1>3, <1>5, <3>1, LaidBeginsWithALine
        <3>3. Len(front) > 0
            BY <1>6, <3>2, EmptySeq
        <3>4. Follows(written, front, ending)
            BY <1>2, <1>6, TwoJoined
        <3>5. written[1] = front[1]
            BY <3>3, <3>4 DEF Follows
        <3>6. all[1] \in TextLines
            BY <1>1, <3>1
        <3> QED
            BY <1>15, <3>2, <3>5, <3>6, SymbolsDiffer DEF BeginsWithLF
    <2> QED
        BY <2>1, <2>2
<1>16. written \in Seq(PlainSymbols)
    BY <1>2, <1>6, ConcatProperties
<1> QED
    BY <1>12, <1>13, <1>14, <1>15, <1>16

(* Reading a frame: what an event has become after its first n lines. *)

Values == STRING \cup {None}
ReadEvents == [comment : {None}, event : Values, id : Values, retry : Values, data : Seq(STRING) \cup {None}]

LEMMA TakenOneMore ==
    ASSUME NEW T, NEW text \in Seq(T), NEW n \in 1 .. Len(text)
    PROVE  /\ SubSeq(text, 1, n) \in Seq(T)
           /\ SubSeq(text, 1, n) = IF n = 1 THEN <<text[n]>> ELSE Append(SubSeq(text, 1, n - 1), text[n])
<1>1. /\ Len(text) \in Nat /\ \A i \in 1 .. Len(text) : text[i] \in T
      /\ 1 \in 1 .. Len(text) /\ n \in 1 .. Len(text) /\ n - 1 \in Int /\ n \in Int
    BY LenProperties, ElementOfSeq
<1>2. SubSeq(text, 1, n) \in Seq(T) /\ SubSeq(text, 1, n - 1) \in Seq(T)
    <2>1. \A i \in 1 .. n : text[i] \in T
        BY <1>1
    <2>2. \A i \in 1 .. n - 1 : text[i] \in T
        BY <1>1
    <2>3. SubSeq(text, 1, n) \in Seq(T)
        BY <1>1, <2>1, SubSeqProperties
    <2>4. SubSeq(text, 1, n - 1) \in Seq(T)
        BY <1>1, <2>2, SubSeqProperties
    <2> QED
        BY <2>3, <2>4
<1>3. SubSeq(text, 1, n) = SubSeq(text, 1, n - 1) \o <<text[n]>>
    BY <1>1, SubSeqRecursiveSecond
<1>4. CASE n = 1
    <2>1. SubSeq(text, 1, n - 1) = <<>>
        BY <1>1, <1>4, SubSeqEmpty
    <2>2. <<text[n]>> \in Seq(T)
        BY <1>1
    <2>3. <<>> \o <<text[n]>> = <<text[n]>>
        BY <2>2, ConcatEmptySeq
    <2> QED
        BY <1>2, <1>3, <1>4, <2>1, <2>3
<1>5. CASE n # 1
    <2>1. Append(SubSeq(text, 1, n - 1), text[n]) = SubSeq(text, 1, n - 1) \o <<text[n]>>
        BY <1>1, <1>2, AppendIsConcat
    <2> QED
        BY <1>2, <1>3, <1>5, <2>1
<1> QED
    BY <1>4, <1>5

\* The fields that reach a symbol.
LEMMA FieldIs ==
    ASSUME NEW event, NEW symbol
    PROVE  /\ symbol = F!LF => F!Field(event, symbol) = event
           /\ symbol.field = "comment" => F!Field(event, symbol) = event
           /\ symbol.field = "event" => F!Field(event, symbol) = [event EXCEPT !.event = symbol.value]
           /\ symbol.field = "id" => F!Field(event, symbol) = [event EXCEPT !.id = symbol.value]
           /\ symbol.field = "retry" => F!Field(event, symbol) = [event EXCEPT !.retry = symbol.value]
           /\ symbol.field = "data" => F!Field(event, symbol) =
                [event EXCEPT !.data = IF event.data = None THEN <<symbol.value>> ELSE Append(event.data, symbol.value)]
<1>1. symbol = F!LF => F!Field(event, symbol) = event
    BY SymbolsDiffer DEF F!Field
<1>2. symbol.field \in FieldNames => F!IsLine(symbol)
    BY DEF F!IsLine, FieldNames
<1>3. symbol.field = "comment" => F!Field(event, symbol) = event
    BY <1>2 DEF F!Field, FieldNames
<1>4. symbol.field = "event" => F!Field(event, symbol) = [event EXCEPT !.event = symbol.value]
    BY <1>2 DEF F!Field, FieldNames
<1>5. symbol.field = "id" => F!Field(event, symbol) = [event EXCEPT !.id = symbol.value]
    BY <1>2 DEF F!Field, FieldNames
<1>6. symbol.field = "retry" => F!Field(event, symbol) = [event EXCEPT !.retry = symbol.value]
    BY <1>2 DEF F!Field, FieldNames
<1>7. symbol.field = "data" => F!Field(event, symbol) =
                [event EXCEPT !.data = IF event.data = None THEN <<symbol.value>> ELSE Append(event.data, symbol.value)]
    BY <1>2 DEF F!Field, FieldNames
<1> QED
    BY <1>1, <1>3, <1>4, <1>5, <1>6, <1>7

LEMMA FieldKeepsTheType ==
    ASSUME NEW event \in ReadEvents, NEW symbol \in PlainSymbols
    PROVE  F!Field(event, symbol) \in ReadEvents
<1>1. CASE symbol \in {F!LF, F!CR}
    BY <1>1, SymbolsDiffer DEF F!Field
<1>2. CASE symbol \in TextLines
    <2>1. symbol.field \in FieldNames /\ symbol.value \in STRING
        BY <1>2 DEF TextLines, F!Symbol
    <2>2. CASE symbol.field = "comment"
        BY <2>2, FieldIs
    <2>3. CASE symbol.field = "event"
        BY <2>1, <2>3, FieldIs DEF ReadEvents, Values
    <2>4. CASE symbol.field = "id"
        BY <2>1, <2>4, FieldIs DEF ReadEvents, Values
    <2>5. CASE symbol.field = "retry"
        BY <2>1, <2>5, FieldIs DEF ReadEvents, Values
    <2>6. CASE symbol.field = "data"
        <3>1. PICK text : text = IF event.data = None THEN <<symbol.value>> ELSE Append(event.data, symbol.value)
            OBVIOUS
        <3>2. text \in Seq(STRING)
            BY <2>1, <3>1, AppendProperties, OneSymbol DEF ReadEvents
        <3>3. F!Field(event, symbol) = [event EXCEPT !.data = text]
            BY <2>6, <3>1, FieldIs
        <3> QED
            BY <3>2, <3>3 DEF ReadEvents, Values
    <2> QED
        BY <2>1, <2>2, <2>3, <2>4, <2>5, <2>6 DEF FieldNames
<1> QED
    BY <1>1, <1>2 DEF PlainSymbols

After(e, id, n) ==
    [comment |-> None,
     event |-> IF n > BeforeEvent(e) THEN e.event ELSE None,
     id |-> IF n > BeforeId(e) /\ e.id # None THEN e.id ELSE id,
     retry |-> IF n > BeforeRetry(e) THEN e.retry ELSE None,
     data |-> IF n <= BeforeData(e) THEN None ELSE SubSeq(e.data, 1, n - BeforeData(e))]

LEMMA Counts ==
    ASSUME NEW e \in Events
    PROVE  /\ BeforeEvent(e) \in Nat /\ BeforeId(e) \in Nat /\ BeforeRetry(e) \in Nat /\ BeforeData(e) \in Nat
           /\ Counted(e.data) \in Nat /\ (e.data # None => Counted(e.data) = Len(e.data) /\ Counted(e.data) > 0)
           /\ BeforeId(e) = BeforeEvent(e) + IF e.event = None THEN 0 ELSE 1
           /\ BeforeRetry(e) = BeforeId(e) + IF e.id = None THEN 0 ELSE 1
           /\ BeforeData(e) = BeforeRetry(e) + IF e.retry = None THEN 0 ELSE 1
           /\ e.data = None => Counted(e.data) = 0
<1>1. /\ e.comment = None \/ e.comment \in Seq(STRING) \ {<<>>}
      /\ e.data = None \/ e.data \in Seq(STRING) \ {<<>>}
    BY FramesConstants
<1>2. Counted(e.comment) \in Nat /\ Counted(e.data) \in Nat
    BY <1>1, LenProperties DEF Counted
<1>3. e.data # None => Len(e.data) > 0
    BY <1>1, EmptySeq
<1>4. /\ BeforeEvent(e) = Counted(e.comment) /\ BeforeId(e) = BeforeEvent(e) + Given(e.event)
      /\ BeforeRetry(e) = BeforeId(e) + Given(e.id) /\ BeforeData(e) = BeforeRetry(e) + Given(e.retry)
    BY DEF BeforeEvent, BeforeId, BeforeRetry, BeforeData
<1>5. \A value : Given(value) = IF value = None THEN 0 ELSE 1
    BY DEF Given
<1>6. (e.data # None => Counted(e.data) = Len(e.data)) /\ (e.data = None => Counted(e.data) = 0)
    BY DEF Counted
<1> QED
    BY <1>2, <1>3, <1>4, <1>5, <1>6

LEMMA LineAfterLine ==
    ASSUME NEW e \in Events, NEW all, all = F!EventLines(e), NEW id \in Values, NEW n \in 1 .. Len(all)
    PROVE  F!Field(After(e, id, n - 1), all[n]) = After(e, id, n)
<1>1. /\ all \in Seq(TextLines) /\ Len(all) = BeforeData(e) + Counted(e.data)
      /\ \A i \in 1 .. BeforeEvent(e) : all[i].field = "comment"
      /\ e.event # None => all[BeforeEvent(e) + 1] = F!Symbol("event", e.event)
      /\ e.id # None => all[BeforeId(e) + 1] = F!Symbol("id", e.id)
      /\ e.retry # None => all[BeforeRetry(e) + 1] = F!Symbol("retry", e.retry)
      /\ \A i \in 1 .. Counted(e.data) : all[BeforeData(e) + i] = F!Symbol("data", e.data[i])
    BY EventLinesAre
<1>2. PICK a, b, c, d : a = BeforeEvent(e) /\ b = BeforeId(e) /\ c = BeforeRetry(e) /\ d = BeforeData(e)
    OBVIOUS
<1>3. /\ a \in Nat /\ b \in Nat /\ c \in Nat /\ d \in Nat /\ Counted(e.data) \in Nat
      /\ b = a + (IF e.event = None THEN 0 ELSE 1)
      /\ c = b + (IF e.id = None THEN 0 ELSE 1)
      /\ d = c + (IF e.retry = None THEN 0 ELSE 1)
      /\ e.data = None => Counted(e.data) = 0
      /\ e.data # None => Counted(e.data) = Len(e.data)
    BY <1>2, Counts
<1>10. n \in Nat /\ n <= d + Counted(e.data) /\ n >= 1
    BY <1>1, <1>2, <1>3
<1>4. \A i : After(e, id, i) =
        [comment |-> None, event |-> IF i > a THEN e.event ELSE None,
         id |-> IF i > b /\ e.id # None THEN e.id ELSE id, retry |-> IF i > c THEN e.retry ELSE None,
         data |-> IF i <= d THEN None ELSE SubSeq(e.data, 1, i - d)]
    BY <1>2 DEF After
<1>5. CASE n <= a
    <2>1. all[n].field = "comment"
        BY <1>1, <1>2, <1>3, <1>10, <1>5
    <2>2. After(e, id, n - 1) = After(e, id, n)
        BY <1>3, <1>10, <1>4, <1>5
    <2> QED
        BY <2>1, <2>2, FieldIs
<1>6. CASE n = a + 1 /\ e.event # None
    <2>1. all[n].field = "event" /\ all[n].value = e.event
        BY <1>1, <1>2, <1>6 DEF F!Symbol
    <2>2. [After(e, id, n - 1) EXCEPT !.event = e.event] = After(e, id, n)
        BY <1>3, <1>10, <1>4, <1>6
    <2> QED
        BY <2>1, <2>2, FieldIs
<1>7. CASE n = b + 1 /\ e.id # None
    <2>1. all[n].field = "id" /\ all[n].value = e.id
        BY <1>1, <1>2, <1>7 DEF F!Symbol
    <2>2. [After(e, id, n - 1) EXCEPT !.id = e.id] = After(e, id, n)
        BY <1>3, <1>10, <1>4, <1>7, SMTT(60)
    <2> QED
        BY <2>1, <2>2, FieldIs
<1>8. CASE n = c + 1 /\ e.retry # None
    <2>1. all[n].field = "retry" /\ all[n].value = e.retry
        BY <1>1, <1>2, <1>8 DEF F!Symbol
    <2>2. [After(e, id, n - 1) EXCEPT !.retry = e.retry] = After(e, id, n)
        <3>1. /\ n > a /\ (n - 1 > a <=> e.event # None \/ e.id # None)
              /\ n > b /\ (n - 1 > b <=> e.id # None)
              /\ n > c /\ ~(n - 1 > c) /\ n <= d /\ n - 1 <= d
            BY <1>3, <1>10, <1>8
        <3> QED
            BY <1>4, <1>8, <3>1
    <2> QED
        BY <2>1, <2>2, FieldIs
<1>9. CASE n > d
    <2>1. PICK m : m = n - d
        OBVIOUS
    <2>2. m \in 1 .. Counted(e.data) /\ n = d + m /\ e.data # None /\ m \in 1 .. Len(e.data)
        <3>1. e.data # None /\ Counted(e.data) = Len(e.data)
            BY <1>3, <1>10, <1>9
        <3>2. m \in 1 .. Counted(e.data) /\ n = d + m
            <4>1. d \in Nat /\ Counted(e.data) \in Nat
                BY <1>3
            <4> QED
                BY ONLY <1>9, <1>10, <2>1, <4>1
        <3> QED
            BY <3>1, <3>2
    <2>3. all[n].field = "data" /\ all[n].value = e.data[m]
        <3>1. all[d + m] = F!Symbol("data", e.data[m])
            BY <1>1, <1>2, <2>2
        <3> QED
            BY <2>2, <3>1 DEF F!Symbol
    <2>4. e.data \in Seq(STRING)
        BY <2>2, FramesConstants
    <2>5. /\ SubSeq(e.data, 1, m) \in Seq(STRING)
          /\ SubSeq(e.data, 1, m) = IF m = 1 THEN <<e.data[m]>> ELSE Append(SubSeq(e.data, 1, m - 1), e.data[m])
        BY <2>2, <2>4, TakenOneMore
    <2>6. CASE m = 1
        <3>1. After(e, id, n - 1).data = None
            BY <1>3, <1>10, <1>4, <2>2, <2>6
        <3>2. [After(e, id, n - 1) EXCEPT !.data = SubSeq(e.data, 1, m)] = After(e, id, n)
            <4>1. ~(n <= d) /\ n > a /\ n > b /\ n > c
                BY <1>3, <1>10, <2>1, <2>2, <2>6
            <4>2. /\ n - 1 > a \/ (e.event = None /\ e.id = None /\ e.retry = None)
                  /\ n - 1 > b \/ (e.id = None /\ e.retry = None)
                  /\ n - 1 > c \/ e.retry = None
                BY <1>3, <1>10, <2>1, <2>2, <2>6
            <4> QED
                BY <1>4, <2>1, <4>1, <4>2
        <3> QED
            BY <2>3, <2>5, <2>6, <3>1, <3>2, FieldIs
    <2>7. CASE m # 1
        <3>1. PICK before : before = SubSeq(e.data, 1, m - 1)
            OBVIOUS
        <3>2. before \in Seq(STRING)
            <4>1. m - 1 \in 1 .. Len(e.data)
                BY <1>3, <1>10, <2>2, <2>7
            <4> QED
                BY <2>4, <3>1, <4>1, TakenOneMore
        <3>3. before # None
            BY <3>2, FramesConstants
        <3>4. After(e, id, n - 1).data = before
            <4>1. ~(n - 1 <= d) /\ (n - 1) - d = m - 1
                BY <1>3, <1>10, <2>1, <2>2, <2>7
            <4> QED
                BY <1>4, <3>1, <4>1
        <3>5. [After(e, id, n - 1) EXCEPT !.data = SubSeq(e.data, 1, m)] = After(e, id, n)
            <4>1. ~(n <= d) /\ n > a /\ n - 1 > a /\ n > b /\ n - 1 > b /\ n > c /\ n - 1 > c
                BY <1>3, <1>10, <2>1, <2>2, <2>7
            <4> QED
                BY <1>4, <2>1, <4>1
        <3> QED
            <4>1. PICK prior : prior = After(e, id, n - 1)
                OBVIOUS
            <4>2. SubSeq(e.data, 1, m) = Append(before, e.data[m])
                BY <2>5, <2>7, <3>1
            <4>3. F!Field(prior, all[n]) = [prior EXCEPT !.data = Append(before, e.data[m])]
                BY <2>3, <3>3, <3>4, <4>1, FieldIs, SMTT(60)
            <4> QED
                BY <3>5, <4>1, <4>2, <4>3
    <2> QED
        BY <2>6, <2>7
<1> QED
    <2>1. n <= a \/ (n = a + 1 /\ e.event # None) \/ (n = b + 1 /\ e.id # None) \/ (n = c + 1 /\ e.retry # None) \/ n > d
        BY <1>3, <1>10
    <2> QED
        BY <1>5, <1>6, <1>7, <1>8, <1>9, <2>1

\* The lines of an event with an LF between them, and perhaps one before.
IsFrame(frame, lead, all) ==
    /\ lead \in {0, 1} /\ (lead = 1 => frame[1] = F!LF)
    /\ Len(frame) = lead + 2 * Len(all) - 1
    /\ \A i \in 1 .. Len(all) : frame[lead + 2 * i - 1] = all[i]
    /\ \A i \in 1 .. Len(all) - 1 : frame[lead + 2 * i] = F!LF

WhatIsRead(e, id) ==
    [comment |-> None, event |-> e.event, id |-> IF e.id = None THEN id ELSE e.id,
     retry |-> e.retry, data |-> e.data]

LEMMA AfterEverything ==
    ASSUME NEW e \in Events, NEW all, all = F!EventLines(e), NEW id \in Values
    PROVE  /\ After(e, id, 0) = [F!NoEvent EXCEPT !.id = id]
           /\ After(e, id, Len(all)) = WhatIsRead(e, id)
<1>1. Len(all) = BeforeData(e) + Counted(e.data)
    BY EventLinesAre
<1>2. PICK a, b, c, d : a = BeforeEvent(e) /\ b = BeforeId(e) /\ c = BeforeRetry(e) /\ d = BeforeData(e)
    OBVIOUS
<1>3. /\ a \in Nat /\ b \in Nat /\ c \in Nat /\ d \in Nat /\ Counted(e.data) \in Nat
      /\ b = a + (IF e.event = None THEN 0 ELSE 1)
      /\ c = b + (IF e.id = None THEN 0 ELSE 1)
      /\ d = c + (IF e.retry = None THEN 0 ELSE 1)
      /\ e.data = None => Counted(e.data) = 0
      /\ e.data # None => Counted(e.data) = Len(e.data) /\ Counted(e.data) > 0
    BY <1>2, Counts
<1>4. \A i : After(e, id, i) =
        [comment |-> None, event |-> IF i > a THEN e.event ELSE None,
         id |-> IF i > b /\ e.id # None THEN e.id ELSE id, retry |-> IF i > c THEN e.retry ELSE None,
         data |-> IF i <= d THEN None ELSE SubSeq(e.data, 1, i - d)]
    BY <1>2 DEF After
<1>5. After(e, id, 0) = [F!NoEvent EXCEPT !.id = id]
    <2>1. ~(0 > a) /\ ~(0 > b) /\ ~(0 > c) /\ 0 <= d
        BY <1>3
    <2>2. After(e, id, 0) = [comment |-> None, event |-> None, id |-> id, retry |-> None, data |-> None]
        BY <1>4, <2>1
    <2> QED
        BY <2>2 DEF F!NoEvent
<1>6. After(e, id, Len(all)) = WhatIsRead(e, id)
    <2>1. PICK last : last = Len(all)
        OBVIOUS
    <2>2. last \in Nat /\ last = d + Counted(e.data)
        <3>1. last = d + Counted(e.data)
            BY <1>1, <1>2, <2>1, Zenon
        <3> QED
            BY <1>3, <3>1
    <2>3. /\ last > a \/ e.event = None
          /\ last > b \/ e.id = None
          /\ last > c \/ e.retry = None
        BY <1>3, <2>2
    <2>4. (IF last <= d THEN None ELSE SubSeq(e.data, 1, last - d)) = e.data
        <3>1. CASE e.data = None
            BY <1>3, <2>2, <3>1
        <3>2. CASE e.data # None
            <4>1. e.data \in Seq(STRING)
                BY <3>2, FramesConstants
            <4>2. SubSeq(e.data, 1, Len(e.data)) = e.data
                BY <4>1, SubSeqFull
            <4>3. ~(last <= d) /\ last - d = Len(e.data)
                BY <1>3, <2>2, <3>2
            <4> QED
                BY <4>2, <4>3
        <3> QED
            BY <3>1, <3>2
    <2>5. After(e, id, last) =
            [comment |-> None, event |-> e.event, id |-> IF e.id = None THEN id ELSE e.id,
             retry |-> e.retry, data |-> e.data]
        BY <1>4, <2>3, <2>4
    <2> QED
        BY <2>1, <2>5 DEF WhatIsRead
<1> QED
    BY <1>5, <1>6

LEMMA ReadLineAfterLine ==
    ASSUME NEW id \in Values, NEW frame \in Seq(PlainSymbols), NEW adding, adding = F!Adding(frame, id)
    PROVE  /\ adding[0] = [F!NoEvent EXCEPT !.id = id]
           /\ \A n \in 1 .. Len(frame) : adding[n] = F!Field(adding[n - 1], frame[n])
<1>1. PICK E, origin : E = ReadEvents /\ origin = [F!NoEvent EXCEPT !.id = id]
    OBVIOUS
<1>2. origin \in E
    BY <1>1 DEF F!NoEvent, ReadEvents, Values
<1>3. Len(frame) \in Nat /\ \A n \in 1 .. Len(frame) : frame[n] \in PlainSymbols
    BY LenProperties, ElementOfSeq
<1>4. StaysIn(E, frame)
    BY <1>1, <1>3, FieldKeepsTheType DEF StaysIn
<1>5. ReadsOn(frame, F!Adding(frame, id), origin)
    BY <1>1, <1>2, <1>3, <1>4, AddingUnfolds
<1> QED
    BY <1>1, <1>5 DEF ReadsOn

\* The lines of an event add up to it, with the last id if it has none.
LEMMA FrameIsDecoded ==
    ASSUME NEW e \in Events, NEW all, all = F!EventLines(e), Len(all) > 0, NEW id \in Values,
           NEW frame \in Seq(PlainSymbols), NEW lead, IsFrame(frame, lead, all)
    PROVE  F!Decoded(frame, id) = WhatIsRead(e, id)
<1>1. /\ Len(all) \in Nat /\ Len(frame) \in Nat /\ lead \in {0, 1}
      /\ Len(frame) = lead + 2 * Len(all) - 1
      /\ \A n \in 1 .. Len(frame) : frame[n] \in PlainSymbols
    <2>1. all \in Seq(TextLines)
        BY EventLinesAre
    <2> QED
        BY <2>1, LenProperties, ElementOfSeq DEF IsFrame
<1>2. PICK adding : adding = F!Adding(frame, id)
    OBVIOUS
<1>3. /\ adding[0] = [F!NoEvent EXCEPT !.id = id]
      /\ \A n \in 1 .. Len(frame) : adding[n] = F!Field(adding[n - 1], frame[n])
    BY <1>1, <1>2, ReadLineAfterLine
<1> DEFINE M == {i \in Nat : i + 1 <= Len(all) =>
                    adding[lead + 2 * i] = After(e, id, i) /\ adding[lead + 2 * i + 1] = After(e, id, i + 1)}
<1>4. \A i \in Nat : /\ i + 1 <= Len(all)
                     /\ adding[lead + 2 * i] = After(e, id, i)
                     => adding[lead + 2 * i + 1] = After(e, id, i + 1)
    <2> SUFFICES ASSUME NEW i \in Nat, i + 1 <= Len(all), adding[lead + 2 * i] = After(e, id, i)
        PROVE  adding[lead + 2 * i + 1] = After(e, id, i + 1)
        OBVIOUS
    <2>1. /\ lead + 2 * i + 1 \in 1 .. Len(frame) /\ (lead + 2 * i + 1) - 1 = lead + 2 * i
          /\ lead + 2 * (i + 1) - 1 = lead + 2 * i + 1 /\ i + 1 \in 1 .. Len(all) /\ (i + 1) - 1 = i
        BY <1>1
    <2>2. adding[lead + 2 * i + 1] = F!Field(adding[lead + 2 * i], frame[lead + 2 * i + 1])
        BY <1>3, <2>1
    <2>3. frame[lead + 2 * i + 1] = all[i + 1]
        BY <2>1 DEF IsFrame
    <2>4. F!Field(After(e, id, i), all[i + 1]) = After(e, id, i + 1)
        BY <2>1, LineAfterLine
    <2> QED
        BY <2>2, <2>3, <2>4
<1>5. 0 \in M
    <2>1. lead + 2 * 0 = lead
        BY <1>1
    <2>2. adding[lead] = After(e, id, 0)
        <3>1. CASE lead = 0
            BY <1>3, <3>1, AfterEverything
        <3>2. CASE lead = 1
            <4>1. 1 \in 1 .. Len(frame) /\ 1 - 1 = 0
                BY <1>1, <3>2
            <4>2. adding[1] = F!Field(adding[0], frame[1])
                BY <1>3, <4>1
            <4>3. frame[1] = F!LF
                BY <3>2 DEF IsFrame
            <4> QED
                BY <1>3, <3>2, <4>2, <4>3, FieldIs, AfterEverything
        <3> QED
            BY <1>1, <3>1, <3>2
    <2> QED
        BY <1>4, <2>1, <2>2
<1>6. \A i \in Nat : i \in M => i + 1 \in M
    <2> SUFFICES ASSUME NEW i \in Nat, i \in M, (i + 1) + 1 <= Len(all)
        PROVE  /\ adding[lead + 2 * (i + 1)] = After(e, id, i + 1)
               /\ adding[lead + 2 * (i + 1) + 1] = After(e, id, (i + 1) + 1)
        OBVIOUS
    <2>1. /\ i + 1 <= Len(all) /\ lead + 2 * (i + 1) \in 1 .. Len(frame)
          /\ (lead + 2 * (i + 1)) - 1 = lead + 2 * i + 1 /\ i + 1 \in 1 .. Len(all) - 1 /\ i + 1 \in Nat
        BY <1>1
    <2>2. adding[lead + 2 * (i + 1)] = F!Field(adding[lead + 2 * i + 1], frame[lead + 2 * (i + 1)])
        BY <1>3, <2>1
    <2>3. frame[lead + 2 * (i + 1)] = F!LF
        BY <2>1 DEF IsFrame
    <2>4. adding[lead + 2 * i + 1] = After(e, id, i + 1)
        BY <2>1
    <2>5. adding[lead + 2 * (i + 1)] = After(e, id, i + 1)
        BY <2>2, <2>3, <2>4, FieldIs
    <2> QED
        BY <1>4, <2>1, <2>5
<1> HIDE DEF M
<1>7. Nat \subseteq M
    BY <1>5, <1>6, NumberInduction
<1>8. adding[Len(frame)] = After(e, id, Len(all))
    <2>1. Len(all) - 1 \in M /\ (Len(all) - 1) + 1 = Len(all) /\ lead + 2 * (Len(all) - 1) + 1 = Len(frame)
        BY <1>1, <1>7
    <2> QED
        BY <2>1 DEF M
<1> QED
    BY <1>2, <1>8, AfterEverything DEF F!Decoded

LEMMA NothingIsDecoded ==
    ASSUME NEW id \in Values
    PROVE  F!Decoded(<<>>, id).data = None /\ F!Decoded(<<>>, id).id = id
<1>1. PICK frame : frame = <<>>
    OBVIOUS
<1>2. Len(frame) = 0
    BY <1>1, EmptySeq
<1>3. frame \in Seq(PlainSymbols)
    BY <1>1, EmptySeq
<1>5. F!Adding(frame, id)[0] = [F!NoEvent EXCEPT !.id = id]
    BY <1>3, ReadLineAfterLine
<1> QED
    BY <1>1, <1>2, <1>5 DEF F!Decoded, F!NoEvent

(* What remains to be read: the lines of every event after the k-th, each  *)
(* followed by an LF, those of one event after those of another with an LF *)
(* at least between them, and nothing else but LFs.                        *)

AllLines(events, n) == F!EventLines(events[n])
Size(events, n) == Len(AllLines(events, n))
LinedAfter(events, k) == {n \in k + 1 .. Len(events) : Size(events, n) > 0}

StandsAt(events, text, n, from) ==
    /\ from \in Nat /\ from >= 1 /\ from + 2 * Size(events, n) <= Len(text)
    /\ \A i \in 1 .. Size(events, n) : /\ text[from + 2 * i - 2] = AllLines(events, n)[i]
                                       /\ text[from + 2 * i - 1] = F!LF
    /\ text[from + 2 * Size(events, n)] = F!LF

Owns(events, at, n, p) == \E i \in 1 .. Size(events, n) : p = at[n] + 2 * i - 2
IsOwned(events, at, k, p) == \E n \in LinedAfter(events, k) : Owns(events, at, n, p)

Remains(events, text, at, k) ==
    /\ \A n \in LinedAfter(events, k) : StandsAt(events, text, n, at[n])
    /\ \A n, m \in LinedAfter(events, k) : n < m => at[n] + 2 * Size(events, n) < at[m]
    /\ \A p \in 1 .. Len(text) : text[p] # F!LF => IsOwned(events, at, k, p)

LEMMA SizesAreNumbers ==
    ASSUME NEW events \in Seq(Events), NEW k \in Nat
    PROVE  /\ Len(events) \in Nat
           /\ \A n \in 1 .. Len(events) : /\ events[n] \in Events /\ AllLines(events, n) \in Seq(TextLines)
                                          /\ Size(events, n) \in Nat
           /\ \A n \in LinedAfter(events, k) :
                n \in 1 .. Len(events) /\ n > k /\ Size(events, n) \in Nat /\ Size(events, n) > 0
<1>1. Len(events) \in Nat /\ \A n \in 1 .. Len(events) : events[n] \in Events
    BY LenProperties, ElementOfSeq
<1>2. ASSUME NEW n \in 1 .. Len(events)
      PROVE  AllLines(events, n) \in Seq(TextLines) /\ Size(events, n) \in Nat
    <2>1. AllLines(events, n) \in Seq(TextLines)
        BY <1>1, EventLinesAre DEF AllLines
    <2> QED
        BY <2>1, LenProperties DEF Size
<1> QED
    BY <1>1, <1>2 DEF LinedAfter

LEMMA EvenOrOdd ==
    ASSUME NEW n \in Nat
    PROVE  \E q \in Nat : n = 2 * q \/ n = 2 * q + 1
<1> DEFINE M == {m \in Nat : \E q \in Nat : m = 2 * q \/ m = 2 * q + 1}
<1>1. 0 \in M
    <2>1. 0 \in Nat /\ 0 = 2 * 0
        OBVIOUS
    <2> QED
        BY <2>1
<1>2. ASSUME NEW m \in Nat, m \in M PROVE m + 1 \in M
    <2>1. PICK q \in Nat : m = 2 * q \/ m = 2 * q + 1
        BY <1>2
    <2>2. m + 1 = 2 * q + 1 \/ m + 1 = 2 * (q + 1)
        BY <2>1
    <2>3. q + 1 \in Nat /\ m + 1 \in Nat
        OBVIOUS
    <2> QED
        BY <2>2, <2>3
<1> HIDE DEF M
<1>3. Nat \subseteq M
    BY <1>1, <1>2, NumberInduction
<1> QED
    BY <1>3 DEF M

\* Where the lines of an event are, and that it is cut after the last.
LEMMA StandingIsCut ==
    ASSUME NEW events \in Seq(Events), NEW n \in 1 .. Len(events), Size(events, n) > 0,
           NEW text \in Seq(PlainSymbols), NEW from, StandsAt(events, text, n, from)
    PROVE  /\ from \in Nat /\ from \in 1 .. Len(text) /\ text[from] # F!LF
           /\ from + 2 * Size(events, n) - 1 \in F!Cuts(text)
           /\ \A p \in from .. from + 2 * Size(events, n) - 2 : p \notin F!Cuts(text)
           /\ \A p \in from .. from + 2 * Size(events, n) : p \in 1 .. Len(text)
<1>1. /\ Size(events, n) \in Nat /\ Len(text) \in Nat
      /\ \A i \in 1 .. Size(events, n) : AllLines(events, n)[i] \in TextLines
    <2>1. AllLines(events, n) \in Seq(TextLines) /\ Size(events, n) \in Nat
        BY SizesAreNumbers
    <2> QED
        BY <2>1, LenProperties, ElementOfSeq DEF Size
<1>2. PICK size : size = Size(events, n)
    OBVIOUS
<1>3. /\ size \in Nat /\ size > 0 /\ from \in Nat /\ from >= 1 /\ from + 2 * size <= Len(text)
      /\ \A i \in 1 .. size : text[from + 2 * i - 2] \in TextLines /\ text[from + 2 * i - 1] = F!LF
      /\ text[from + 2 * size] = F!LF
    BY <1>1, <1>2 DEF StandsAt
<1>4. \A i \in 1 .. size : text[from + 2 * i - 2] # F!LF
    BY <1>3, SymbolsDiffer
<1>5. text[from] # F!LF
    <2>1. 1 \in 1 .. size /\ from + 2 * 1 - 2 = from
        BY <1>3
    <2> QED
        BY <1>4, <2>1
<1>6. from + 2 * size - 1 \in F!Cuts(text)
    <2>1. size \in 1 .. size /\ (from + 2 * size - 1) + 1 = from + 2 * size
          /\ from + 2 * size - 1 \in 1 .. Len(text) - 1
        <3>1. Len(text) \in Nat /\ size \in Nat /\ size > 0 /\ from \in Nat /\ from >= 1 /\ from + 2 * size <= Len(text)
            BY <1>1, <1>3
        <3> QED
            BY ONLY <3>1
    <2>2. text[from + 2 * size - 1] = F!LF /\ text[(from + 2 * size - 1) + 1] = F!LF
        BY <1>3, <2>1
    <2> QED
        BY <2>1, <2>2 DEF F!Cuts
<1>7. ASSUME NEW p \in from .. from + 2 * size - 2 PROVE p \notin F!Cuts(text)
    <2>1. \E i \in 1 .. size : p = from + 2 * i - 2 \/ p + 1 = from + 2 * i - 2
        <3>0. p - from \in Nat
            BY <1>3
        <3>1. PICK q \in Nat : p - from = 2 * q \/ p - from = 2 * q + 1
            BY <3>0, EvenOrOdd
        <3>2. CASE p - from = 2 * q
            <4>1. q + 1 \in 1 .. size /\ p = from + 2 * (q + 1) - 2
                BY <1>3, <3>2
            <4> QED
                BY <4>1
        <3>3. CASE p - from = 2 * q + 1
            <4>1. q + 2 \in 1 .. size /\ p + 1 = from + 2 * (q + 2) - 2
                BY <1>3, <3>3
            <4> QED
                BY <4>1
        <3> QED
            BY <3>1, <3>2, <3>3
    <2>2. text[p] # F!LF \/ text[p + 1] # F!LF
        BY <1>4, <2>1
    <2> QED
        BY <2>2 DEF F!Cuts
<1>8. \A p \in from .. from + 2 * size : p \in 1 .. Len(text)
    BY <1>1, <1>3
<1> QED
    BY <1>1, <1>2, <1>3, <1>5, <1>6, <1>7, <1>8

\* The text from some symbol on, when no event stands across it.
LEMMA RemainsFrom ==
    ASSUME NEW events \in Seq(Events), NEW text \in Seq(PlainSymbols), NEW at,
           NEW k \in 0 .. Len(events), NEW j \in k .. Len(events), Remains(events, text, at, k),
           NEW d \in 0 .. Len(text),
           \A n \in LinedAfter(events, k) : IF n <= j THEN at[n] + 2 * Size(events, n) <= d + 1 ELSE at[n] > d,
           NEW rest, rest = SubSeq(text, d + 1, Len(text)),
           NEW moved, moved = [n \in Nat |-> at[n] - d]
    PROVE  rest \in Seq(PlainSymbols) /\ Remains(events, rest, moved, j)
<1>1. /\ Len(text) \in Nat /\ Len(events) \in Nat /\ j \in Nat /\ k \in Nat /\ d \in Nat /\ d <= Len(text) /\ k <= j
      /\ \A p \in 1 .. Len(text) : text[p] \in PlainSymbols
    BY LenProperties, ElementOfSeq
<1>2. /\ rest \in Seq(PlainSymbols) /\ Len(rest) = Len(text) - d
      /\ \A p \in 1 .. Len(text) - d : rest[p] = text[p + d]
    <2>1. d + 1 \in Int /\ Len(text) \in Int /\ \A p \in d + 1 .. Len(text) : text[p] \in PlainSymbols
        BY <1>1
    <2>2. /\ rest \in Seq(PlainSymbols)
          /\ Len(rest) = IF d + 1 <= Len(text) THEN Len(text) - (d + 1) + 1 ELSE 0
          /\ \A p \in 1 .. Len(text) - (d + 1) + 1 : rest[p] = text[(d + 1) + p - 1]
        BY <2>1, SubSeqProperties
    <2>3. Len(rest) = Len(text) - d
        BY <1>1, <2>2
    <2>4. \A p \in 1 .. Len(text) - d : p \in 1 .. Len(text) - (d + 1) + 1 /\ (d + 1) + p - 1 = p + d
        BY <1>1
    <2> QED
        BY <2>2, <2>3, <2>4
<1>3. \A n \in LinedAfter(events, j) :
        /\ n \in LinedAfter(events, k) /\ n > j /\ n \in Nat /\ moved[n] = at[n] - d
        /\ Size(events, n) \in Nat /\ Size(events, n) > 0 /\ at[n] \in Nat /\ at[n] > d
        /\ StandsAt(events, text, n, at[n])
    <2> SUFFICES ASSUME NEW n \in LinedAfter(events, j)
        PROVE  /\ n \in LinedAfter(events, k) /\ n > j /\ n \in Nat /\ moved[n] = at[n] - d
               /\ Size(events, n) \in Nat /\ Size(events, n) > 0 /\ at[n] \in Nat /\ at[n] > d
               /\ StandsAt(events, text, n, at[n])
        OBVIOUS
    <2>1. n \in 1 .. Len(events) /\ n > j /\ Size(events, n) \in Nat /\ Size(events, n) > 0
        BY <1>1, SizesAreNumbers
    <2>2. n \in LinedAfter(events, k)
        BY <1>1, <2>1 DEF LinedAfter
    <2>3. StandsAt(events, text, n, at[n])
        BY <2>2 DEF Remains
    <2>4. at[n] \in Nat
        BY <2>3 DEF StandsAt
    <2>5. ~(n <= j) /\ n \in Nat
        BY <1>1, <2>1
    <2> QED
        BY <2>1, <2>2, <2>3, <2>4, <2>5
<1>4. ASSUME NEW n \in LinedAfter(events, j) PROVE StandsAt(events, rest, n, moved[n])
    <2>1. PICK size, from, here : size = Size(events, n) /\ from = at[n] /\ here = moved[n]
        OBVIOUS
    <2>2. /\ size \in Nat /\ size > 0 /\ from \in Nat /\ from > d /\ here = from - d
          /\ from + 2 * size <= Len(text)
          /\ \A i \in 1 .. size : /\ text[from + 2 * i - 2] = AllLines(events, n)[i]
                                  /\ text[from + 2 * i - 1] = F!LF
          /\ text[from + 2 * size] = F!LF
        BY <1>3, <2>1 DEF StandsAt
    <2>3. here \in Nat /\ here >= 1 /\ here + 2 * size <= Len(rest)
        BY <1>1, <1>2, <2>2, SMTT(60)
    <2>4. ASSUME NEW i \in 1 .. size
          PROVE  rest[here + 2 * i - 2] = AllLines(events, n)[i] /\ rest[here + 2 * i - 1] = F!LF
        <3>1. /\ here + 2 * i - 2 \in 1 .. Len(text) - d /\ (here + 2 * i - 2) + d = from + 2 * i - 2
              /\ here + 2 * i - 1 \in 1 .. Len(text) - d /\ (here + 2 * i - 1) + d = from + 2 * i - 1
            <4>1. /\ i \in Nat /\ i >= 1 /\ i <= size /\ size \in Nat /\ from \in Nat /\ from > d /\ here = from - d
                  /\ from + 2 * size <= Len(text) /\ Len(text) \in Nat /\ d \in Nat
                BY <1>1, <2>2
            <4> QED
                BY ONLY <4>1
        <3> QED
            BY <1>2, <2>2, <3>1
    <2>5. rest[here + 2 * size] = F!LF
        <3>1. here + 2 * size \in 1 .. Len(text) - d /\ (here + 2 * size) + d = from + 2 * size
            BY <1>1, <2>2
        <3> QED
            BY <1>2, <2>2, <3>1
    <2> QED
        BY <2>1, <2>3, <2>4, <2>5 DEF StandsAt
<1>5. ASSUME NEW n \in LinedAfter(events, j), NEW m \in LinedAfter(events, j), n < m
      PROVE  moved[n] + 2 * Size(events, n) < moved[m]
    <2>1. at[n] + 2 * Size(events, n) < at[m]
        BY <1>3, <1>5 DEF Remains
    <2>2. moved[n] = at[n] - d /\ moved[m] = at[m] - d /\ at[n] \in Nat /\ at[m] \in Nat /\ Size(events, n) \in Nat /\ d \in Nat
        BY <1>1, <1>3
    <2> QED
        BY ONLY <2>1, <2>2
<1>6. ASSUME NEW p \in 1 .. Len(rest), rest[p] # F!LF PROVE IsOwned(events, moved, j, p)
    <2>1. p + d \in 1 .. Len(text) /\ text[p + d] # F!LF
        BY <1>1, <1>2, <1>6
    <2>2. PICK n \in LinedAfter(events, k) : Owns(events, at, n, p + d)
        BY <2>1 DEF Remains, IsOwned
    <2>3. PICK i \in 1 .. Size(events, n) : p + d = at[n] + 2 * i - 2
        BY <2>2 DEF Owns
    <2>4. n \in 1 .. Len(events) /\ Size(events, n) \in Nat /\ Size(events, n) > 0
        BY <1>1, SizesAreNumbers
    <2>5. at[n] \in Nat
        BY DEF Remains, StandsAt
    <2>6. n > j
        <3>1. n <= j => at[n] + 2 * Size(events, n) <= d + 1
            OBVIOUS
        <3>2. ~(at[n] + 2 * Size(events, n) <= d + 1)
            BY <1>1, <1>2, <2>3, <2>4, <2>5, SMTT(60)
        <3> QED
            BY <1>1, <2>4, <3>1, <3>2
    <2>7. n \in LinedAfter(events, j)
        BY <1>1, <2>4, <2>6 DEF LinedAfter
    <2>8. p = moved[n] + 2 * i - 2
        BY <1>1, <1>3, <2>3, <2>4, <2>5, <2>7, SMTT(60)
    <2>9. Owns(events, moved, n, p)
        BY <2>8 DEF Owns
    <2> QED
        BY <2>7, <2>9 DEF IsOwned
<1> QED
    BY <1>2, <1>4, <1>5, <1>6 DEF Remains

\* The first blank line is an empty one, or ends the first event with lines.
StrayCut(events, at, k, c) == c = 1 /\ \A n \in LinedAfter(events, k) : at[n] > 2
EventCut(events, text, at, k, c, j) ==
    /\ j \in LinedAfter(events, k) /\ \A n \in LinedAfter(events, k) : n >= j
    /\ c = at[j] + 2 * Size(events, j) - 1 /\ at[j] \in {1, 2} /\ (at[j] = 2 => text[1] = F!LF)

LEMMA FirstCut ==
    ASSUME NEW events \in Seq(Events), NEW text \in Seq(PlainSymbols), NEW at, NEW k \in 0 .. Len(events),
           Remains(events, text, at, k), NEW c \in F!Cuts(text), \A other \in F!Cuts(text) : c <= other
    PROVE  StrayCut(events, at, k, c) \/ \E j \in Nat : EventCut(events, text, at, k, c, j)
<1>1. /\ Len(text) \in Nat /\ Len(events) \in Nat /\ k \in Nat /\ c \in Nat /\ c >= 1 /\ c + 1 <= Len(text)
      /\ text[c] = F!LF
    BY LenProperties DEF F!Cuts
<1>2. ASSUME NEW n \in LinedAfter(events, k)
      PROVE  /\ n \in Nat /\ n \in 1 .. Len(events) /\ Size(events, n) \in Nat /\ Size(events, n) > 0
             /\ at[n] \in Nat /\ at[n] >= 1 /\ StandsAt(events, text, n, at[n])
    <2>1. n \in 1 .. Len(events) /\ Size(events, n) \in Nat /\ Size(events, n) > 0
        BY <1>1, SizesAreNumbers
    <2>2. StandsAt(events, text, n, at[n])
        BY DEF Remains
    <2> QED
        BY <2>1, <2>2 DEF StandsAt
<1>3. ASSUME NEW least \in Nat, least > 2, \A n \in LinedAfter(events, k) : at[n] >= least
      PROVE  StrayCut(events, at, k, c)
    <2>1. ASSUME NEW p \in 1 .. 2 PROVE text[p] = F!LF
        <3> SUFFICES ASSUME text[p] # F!LF PROVE FALSE
            OBVIOUS
        <3>1. p \in 1 .. Len(text)
            BY <1>1
        <3>2. PICK n \in LinedAfter(events, k) : Owns(events, at, n, p)
            BY <3>1 DEF Remains, IsOwned
        <3>3. PICK i \in 1 .. Size(events, n) : p = at[n] + 2 * i - 2
            BY <3>2 DEF Owns
        <3>4. at[n] \in Nat /\ at[n] >= least /\ i \in Nat /\ i >= 1
            BY <1>2, <1>3
        <3> QED
            BY <1>3, <3>3, <3>4
    <2>2. 1 \in F!Cuts(text)
        <3>1. 1 \in 1 .. Len(text) - 1 /\ 1 \in 1 .. 2 /\ 1 + 1 \in 1 .. 2
            BY <1>1
        <3> QED
            BY <2>1, <3>1 DEF F!Cuts
    <2>3. c = 1
        BY <1>1, <2>2
    <2>4. \A n \in LinedAfter(events, k) : at[n] > 2
        BY <1>2, <1>3
    <2> QED
        BY <2>3, <2>4 DEF StrayCut
<1>4. CASE LinedAfter(events, k) = {}
    <2>1. \A n \in LinedAfter(events, k) : at[n] >= 3
        BY <1>4
    <2> QED
        BY <1>3, <2>1
<1>5. CASE LinedAfter(events, k) # {}
    <2>1. LinedAfter(events, k) \in SUBSET Nat
        BY <1>2
    <2>2. PICK j \in LinedAfter(events, k) : \A n \in LinedAfter(events, k) : j <= n
        BY <1>5, <2>1, SmallestMember
    <2>3. PICK size, from : size = Size(events, j) /\ from = at[j]
        OBVIOUS
    <2>4. size \in Nat /\ size > 0 /\ from \in Nat /\ from >= 1 /\ j \in Nat /\ j \in 1 .. Len(events)
        BY <1>2, <2>3
    <2>5. ASSUME NEW n \in LinedAfter(events, k) PROVE at[n] >= from
        <3>1. CASE n = j
            BY <2>3, <2>4, <3>1
        <3>2. CASE n # j
            <4>1. j < n
                BY <1>2, <2>2, <2>4, <3>2
            <4>2. at[j] + 2 * Size(events, j) < at[n]
                BY <4>1 DEF Remains
            <4> QED
                BY <1>2, <2>3, <2>4, <4>2
        <3> QED
            BY <3>1, <3>2
    <2>6. CASE from > 2
        BY <1>3, <2>4, <2>5, <2>6
    <2>7. CASE from <= 2
        <3>1. /\ text[from] # F!LF /\ from + 2 * size - 1 \in F!Cuts(text)
              /\ \A p \in from .. from + 2 * size - 2 : p \notin F!Cuts(text)
            BY <1>2, <2>3, <2>4, StandingIsCut
        <3>2. from \in {1, 2}
            BY <2>4, <2>7
        <3>3. c <= from + 2 * size - 1
            BY <3>1
        <3>4. c \notin from .. from + 2 * size - 2
            BY <3>1
        <3>5. ~(c < from)
            <4> SUFFICES ASSUME c < from PROVE FALSE
                OBVIOUS
            <4>1. c = 1 /\ from = c + 1
                BY <1>1, <3>2
            <4>2. text[c + 1] = F!LF
                BY DEF F!Cuts
            <4> QED
                BY <3>1, <4>1, <4>2
        <3>6. c = from + 2 * size - 1
            BY <1>1, <2>4, <3>3, <3>4, <3>5
        <3>7. ASSUME from = 2 PROVE text[1] = F!LF
            <4> SUFFICES ASSUME text[1] # F!LF PROVE FALSE
                OBVIOUS
            <4>1. 1 \in 1 .. Len(text)
                BY <1>1
            <4>2. PICK n \in LinedAfter(events, k) : Owns(events, at, n, 1)
                BY <4>1 DEF Remains, IsOwned
            <4>3. PICK i \in 1 .. Size(events, n) : 1 = at[n] + 2 * i - 2
                BY <4>2 DEF Owns
            <4>4. at[n] \in Nat /\ at[n] >= from /\ i \in Nat /\ i >= 1
                BY <1>2, <2>5
            <4> QED
                BY <3>7, <4>3, <4>4
        <3>8. EventCut(events, text, at, k, c, j)
            <4>1. \A n \in LinedAfter(events, k) : n >= j
                BY <1>2, <2>2, <2>4
            <4> QED
                BY <2>3, <3>2, <3>6, <3>7, <4>1 DEF EventCut
        <3> QED
            BY <2>4, <3>8
    <2> QED
        BY <2>4, <2>6, <2>7
<1> QED
    BY <1>4, <1>5

FrameOf(events, text, at, k, c, j, frame) ==
    Remains(events, text, at, k) /\ EventCut(events, text, at, k, c, j) /\ frame = SubSeq(text, 1, c - 1)

LEMMA CutFrame ==
    ASSUME NEW events \in Seq(Events), NEW text \in Seq(PlainSymbols), NEW at, NEW k \in 0 .. Len(events),
           NEW c, NEW j \in Nat, NEW frame, FrameOf(events, text, at, k, c, j, frame), NEW id \in Values
    PROVE  F!Decoded(frame, id) = WhatIsRead(events[j], id)
<1>0. /\ Remains(events, text, at, k) /\ EventCut(events, text, at, k, c, j)
      /\ frame = SubSeq(text, 1, c - 1)
    BY DEF FrameOf
<1>1. /\ Len(text) \in Nat /\ Len(events) \in Nat /\ k \in Nat
      /\ \A p \in 1 .. Len(text) : text[p] \in PlainSymbols
    BY LenProperties, ElementOfSeq
<1>2. j \in LinedAfter(events, k) /\ StandsAt(events, text, j, at[j])
    BY <1>0 DEF EventCut, Remains
<1>3. /\ j \in 1 .. Len(events) /\ Size(events, j) \in Nat /\ Size(events, j) > 0
      /\ events[j] \in Events
    BY <1>1, <1>2, SizesAreNumbers
<1>4. PICK size, from, all : size = Size(events, j) /\ from = at[j] /\ all = F!EventLines(events[j])
    OBVIOUS
<1>5. /\ size \in Nat /\ size > 0 /\ size = Len(all) /\ from \in {1, 2} /\ c = from + 2 * size - 1
      /\ (from = 2 => text[1] = F!LF) /\ from + 2 * size <= Len(text)
      /\ \A i \in 1 .. size : text[from + 2 * i - 2] = all[i] /\ text[from + 2 * i - 1] = F!LF
    BY <1>0, <1>2, <1>3, <1>4 DEF EventCut, StandsAt, Size, AllLines
<1>6. /\ frame \in Seq(PlainSymbols) /\ Len(frame) = c - 1
      /\ \A p \in 1 .. c - 1 : frame[p] = text[p]
    <2>1. c \in Nat /\ c > 1 /\ c <= Len(text)
        BY <1>1, <1>5
    <2>2. 1 \in Int /\ c - 1 \in Int /\ \A p \in 1 .. c - 1 : text[p] \in PlainSymbols
        BY <1>1, <2>1
    <2>3. /\ frame \in Seq(PlainSymbols)
          /\ Len(frame) = IF 1 <= c - 1 THEN (c - 1) - 1 + 1 ELSE 0
          /\ \A p \in 1 .. (c - 1) - 1 + 1 : frame[p] = text[1 + p - 1]
        BY <1>0, <2>2, SubSeqProperties
    <2>4. Len(frame) = c - 1
        BY <2>1, <2>3
    <2>5. \A p \in 1 .. c - 1 : p \in 1 .. (c - 1) - 1 + 1 /\ 1 + p - 1 = p
        BY <2>1
    <2> QED
        BY <2>3, <2>4, <2>5
<1>7. PICK lead : lead = from - 1
    OBVIOUS
<1>8. IsFrame(frame, lead, all)
    <2>1. lead \in {0, 1} /\ Len(frame) = lead + 2 * Len(all) - 1
        BY <1>5, <1>6, <1>7
    <2>2. lead = 1 => frame[1] = F!LF
        <3> SUFFICES ASSUME lead = 1 PROVE frame[1] = F!LF
            OBVIOUS
        <3>1. from = 2 /\ 1 \in 1 .. c - 1
            BY <1>5, <1>7
        <3> QED
            BY <1>5, <1>6, <3>1
    <2>3. ASSUME NEW i \in 1 .. size PROVE frame[lead + 2 * i - 1] = all[i]
        <3>1. lead + 2 * i - 1 = from + 2 * i - 2 /\ lead + 2 * i - 1 \in 1 .. c - 1
            BY <1>5, <1>7
        <3> QED
            BY <1>5, <1>6, <3>1
    <2>4. ASSUME NEW i \in 1 .. size - 1 PROVE frame[lead + 2 * i] = F!LF
        <3>1. lead + 2 * i = from + 2 * i - 1 /\ lead + 2 * i \in 1 .. c - 1 /\ i \in 1 .. size
            BY <1>5, <1>7
        <3> QED
            BY <1>5, <1>6, <3>1
    <2> QED
        BY <1>5, <2>1, <2>2, <2>3, <2>4 DEF IsFrame
<1> QED
    BY <1>3, <1>4, <1>5, <1>6, <1>8, FrameIsDecoded

(* What a reader is to be told. *)

NamedUpTo(events, n) == {m \in 1 .. n : events[m].id # None}
LastId(events, n) ==
    IF NamedUpTo(events, n) = {} THEN None
    ELSE events[CHOOSE m \in NamedUpTo(events, n) : \A other \in NamedUpTo(events, n) : other <= m].id

ToldOf(events, n) == [events[n] EXCEPT !.comment = None, !.id = LastId(events, n)]
WithData(events, n) == {m \in 1 .. n : events[m].data # None}
ToldUpTo(events, n) == At([m \in 1 .. Len(events) |-> ToldOf(events, m)], WithData(events, n))

LEMMA LatestOfNumbers ==
    ASSUME NEW n \in Nat, NEW M \in SUBSET (1 .. n), M # {}
    PROVE  \E m \in M : \A other \in M : other <= m
<1> DEFINE B == {b \in Nat : \A m \in M : m <= b}
<1>1. n \in B
    OBVIOUS
<1>2. PICK b \in B : \A other \in B : b <= other
    <2>1. B \in SUBSET Nat /\ B # {}
        BY <1>1
    <2> HIDE DEF B
    <2> QED
        BY <2>1, SmallestMember
<1>3. b \in M
    <2> SUFFICES ASSUME b \notin M PROVE FALSE
        OBVIOUS
    <2>1. PICK m : m \in M
        OBVIOUS
    <2>2. m \in Nat /\ m >= 1 /\ m <= b /\ b \in Nat
        BY <2>1
    <2>3. \A other \in M : other <= b - 1
        OBVIOUS
    <2>4. b - 1 \in B
        BY <2>2, <2>3
    <2> QED
        BY <1>2, <2>2, <2>4
<1> QED
    BY <1>3

LEMMA LastIdOnwards ==
    ASSUME NEW events, NEW k \in Nat, NEW j \in Nat, k < j,
           \A m \in k + 1 .. j - 1 : events[m].id = None
    PROVE  LastId(events, j) = IF events[j].id = None THEN LastId(events, k) ELSE events[j].id
<1>1. CASE events[j].id = None
    <2>1. NamedUpTo(events, j) = NamedUpTo(events, k)
        <3>1. \A m \in 1 .. j : m \in 1 .. k \/ m \in k + 1 .. j - 1 \/ m = j
            OBVIOUS
        <3>2. \A m \in 1 .. k : m \in 1 .. j
            OBVIOUS
        <3> QED
            BY <1>1, <3>1, <3>2 DEF NamedUpTo
    <2> QED
        BY <1>1, <2>1 DEF LastId
<1>2. CASE events[j].id # None
    <2>1. j \in NamedUpTo(events, j) /\ \A m \in NamedUpTo(events, j) : m \in Nat /\ m <= j
        BY <1>2 DEF NamedUpTo
    <2>2. (CHOOSE m \in NamedUpTo(events, j) : \A other \in NamedUpTo(events, j) : other <= m) = j
        BY <2>1
    <2> QED
        BY <1>2, <2>1, <2>2 DEF LastId
<1> QED
    BY <1>1, <1>2

LEMMA LastIdStays ==
    ASSUME NEW events, NEW more, NEW n \in Nat, \A m \in 1 .. n : more[m] = events[m]
    PROVE  LastId(more, n) = LastId(events, n)
<1>1. NamedUpTo(more, n) = NamedUpTo(events, n)
    BY DEF NamedUpTo
<1>2. CASE NamedUpTo(events, n) = {}
    BY <1>1, <1>2 DEF LastId
<1>3. CASE NamedUpTo(events, n) # {}
    <2>1. PICK latest : latest = CHOOSE m \in NamedUpTo(events, n) : \A other \in NamedUpTo(events, n) : other <= m
        OBVIOUS
    <2>2. NamedUpTo(events, n) \in SUBSET (1 .. n)
        BY DEF NamedUpTo
    <2>3. \E m \in NamedUpTo(events, n) : \A other \in NamedUpTo(events, n) : other <= m
        BY <1>3, <2>2, LatestOfNumbers
    <2>4. latest \in NamedUpTo(events, n)
        BY <2>1, <2>3
    <2>5. more[latest] = events[latest]
        BY <2>2, <2>4
    <2> QED
        BY <1>1, <1>3, <2>1, <2>5 DEF LastId
<1> QED
    BY <1>2, <1>3

LEMMA LastIdIsAValue ==
    ASSUME NEW events \in Seq(Events), NEW n \in 0 .. Len(events)
    PROVE  LastId(events, n) \in Values
<1>1. Len(events) \in Nat /\ \A m \in 1 .. Len(events) : events[m] \in Events
    BY LenProperties, ElementOfSeq
<1>2. \A m \in 1 .. n : events[m].id \in Values
    BY <1>1, FramesConstants DEF Values
<1>3. CASE NamedUpTo(events, n) = {}
    BY <1>3 DEF LastId, Values
<1>4. CASE NamedUpTo(events, n) # {}
    <2>1. NamedUpTo(events, n) \in SUBSET (1 .. n) /\ n \in Nat
        BY <1>1 DEF NamedUpTo
    <2>2. \E m \in NamedUpTo(events, n) : \A other \in NamedUpTo(events, n) : other <= m
        BY <1>4, <2>1, LatestOfNumbers
    <2>3. PICK latest : latest = CHOOSE m \in NamedUpTo(events, n) : \A other \in NamedUpTo(events, n) : other <= m
        OBVIOUS
    <2>4. latest \in 1 .. n
        BY <2>1, <2>2, <2>3
    <2> QED
        BY <1>2, <1>4, <2>3, <2>4 DEF LastId
<1> QED
    BY <1>3, <1>4

LEMMA WithDataIsFinite ==
    ASSUME NEW events, NEW n \in Nat
    PROVE  WithData(events, n) \in SUBSET Nat /\ IsFiniteSet(WithData(events, n))
<1>1. IsFiniteSet(1 .. n) /\ WithData(events, n) \subseteq 1 .. n
    BY FS_Interval DEF WithData
<1> QED
    BY <1>1, FS_Subset

LEMMA ToldStays ==
    ASSUME NEW events \in Seq(Events), NEW e \in Events, NEW more, more = Append(events, e), NEW n \in 0 .. Len(events)
    PROVE  LastId(more, n) = LastId(events, n) /\ ToldUpTo(more, n) = ToldUpTo(events, n)
<1>1. Len(events) \in Nat /\ n \in Nat /\ Len(more) = Len(events) + 1
      /\ \A m \in 1 .. Len(events) : more[m] = events[m]
    BY LenProperties, AppendProperties
<1>2. \A m \in 0 .. n : LastId(more, m) = LastId(events, m)
    <2> SUFFICES ASSUME NEW m \in 0 .. n PROVE LastId(more, m) = LastId(events, m)
        OBVIOUS
    <2>1. m \in Nat /\ \A i \in 1 .. m : more[i] = events[i]
        BY <1>1
    <2> QED
        BY <2>1, LastIdStays
<1>3. WithData(more, n) = WithData(events, n)
    BY <1>1 DEF WithData
<1>4. PICK M : M = WithData(events, n)
    OBVIOUS
<1>5. M \in SUBSET Nat /\ IsFiniteSet(M) /\ M \subseteq 1 .. n
    BY <1>1, <1>4, WithDataIsFinite DEF WithData
<1>6. \A m \in M : /\ m \in 1 .. Len(events) /\ m \in 1 .. Len(more) /\ ToldOf(more, m) = ToldOf(events, m)
    <2> SUFFICES ASSUME NEW m \in M
        PROVE  m \in 1 .. Len(events) /\ m \in 1 .. Len(more) /\ ToldOf(more, m) = ToldOf(events, m)
        OBVIOUS
    <2>1. m \in 1 .. n /\ m \in 0 .. n /\ m \in 1 .. Len(events) /\ m \in 1 .. Len(more)
        BY <1>1, <1>5
    <2>2. more[m] = events[m] /\ LastId(more, m) = LastId(events, m)
        BY <1>1, <1>2, <2>1
    <2> QED
        BY <2>1, <2>2 DEF ToldOf
<1>7. \A i \in 1 .. Cardinality(M) : Nth(M, i) \in M
    <2> SUFFICES ASSUME NEW i \in 1 .. Cardinality(M) PROVE Nth(M, i) \in M
        OBVIOUS
    <2> QED
        BY <1>5, RankIsTaken
<1>8. At([m \in 1 .. Len(more) |-> ToldOf(more, m)], M) = At([m \in 1 .. Len(events) |-> ToldOf(events, m)], M)
    BY <1>6, <1>7 DEF At
<1> QED
    BY <1>1, <1>2, <1>3, <1>4, <1>8 DEF ToldUpTo

LEMMA ToldOnwards ==
    ASSUME NEW events \in Seq(Events), NEW k \in 0 .. Len(events), NEW j \in k + 1 .. Len(events),
           \A m \in k + 1 .. j - 1 : events[m].data = None
    PROVE  ToldUpTo(events, j) =
                IF events[j].data = None THEN ToldUpTo(events, k) ELSE Append(ToldUpTo(events, k), ToldOf(events, j))
<1>1. Len(events) \in Nat /\ k \in Nat /\ j \in Nat /\ k < j
    BY LenProperties
<1>2. CASE events[j].data = None
    <2>1. WithData(events, j) = WithData(events, k)
        <3>1. \A m \in 1 .. j : m \in 1 .. k \/ m \in k + 1 .. j - 1 \/ m = j
            BY <1>1
        <3>2. \A m \in 1 .. k : m \in 1 .. j
            BY <1>1
        <3> QED
            BY <1>2, <3>1, <3>2 DEF WithData
    <2> QED
        BY <1>2, <2>1 DEF ToldUpTo
<1>3. CASE events[j].data # None
    <2>1. WithData(events, j) = WithData(events, k) \cup {j}
        <3>1. \A m \in 1 .. j : m \in 1 .. k \/ m \in k + 1 .. j - 1 \/ m = j
            BY <1>1
        <3>2. (\A m \in 1 .. k : m \in 1 .. j) /\ j \in 1 .. j
            BY <1>1
        <3> QED
            BY <1>3, <3>1, <3>2 DEF WithData
    <2>2. PICK M, told : M = WithData(events, k) /\ told = [m \in 1 .. Len(events) |-> ToldOf(events, m)]
        OBVIOUS
    <2>3. M \in SUBSET Nat /\ IsFiniteSet(M) /\ \A i \in M : i < j
        BY <1>1, <2>2, WithDataIsFinite DEF WithData
    <2>4. /\ Cardinality(M \cup {j}) = Cardinality(M) + 1 /\ Cardinality(M) \in Nat
          /\ \A i \in 1 .. Cardinality(M) : Nth(M \cup {j}, i) = Nth(M, i)
          /\ Nth(M \cup {j}, Cardinality(M) + 1) = j
        <3>1. /\ IsFiniteSet(M \cup {j}) /\ Cardinality(M \cup {j}) = Cardinality(M) + 1
              /\ \A i \in Nat : i < j => Rank(M \cup {j}, i) = Rank(M, i)
              /\ Rank(M \cup {j}, j) = Cardinality(M) + 1
            BY <1>1, <2>3, NewestIsLast
        <3>2. Cardinality(M) \in Nat
            BY <2>3, FS_CardinalityType
        <3>3. M \cup {j} \in SUBSET Nat /\ \A i \in M : i \in M \cup {j}
            BY <1>1, <2>3
        <3>4. ASSUME NEW i \in 1 .. Cardinality(M) PROVE Nth(M \cup {j}, i) = Nth(M, i)
            <4>1. PICK m \in M : Rank(M, m) = i /\ Nth(M, i) = m
                BY <2>3, RankIsTaken
            <4>2. Rank(M \cup {j}, m) = i
                BY <2>3, <3>1, <4>1
            <4>3. Nth(M \cup {j}, Rank(M \cup {j}, m)) = m
                BY <3>1, <3>3, RankIsOwn
            <4> QED
                BY <4>1, <4>2, <4>3
        <3>5. Nth(M \cup {j}, Rank(M \cup {j}, j)) = j
            BY <3>1, <3>3, RankIsOwn
        <3> QED
            BY <3>1, <3>2, <3>4, <3>5
    <2>5. PICK before, now : before = At(told, M) /\ now = At(told, M \cup {j})
        OBVIOUS
    <2>6. before = [i \in 1 .. Cardinality(M) |-> told[Nth(M, i)]]
          /\ now = [i \in 1 .. Cardinality(M) + 1 |-> told[Nth(M \cup {j}, i)]]
        BY <2>4, <2>5 DEF At
    <2>7. /\ Len(before) = Cardinality(M) /\ before = [i \in 1 .. Len(before) |-> before[i]]
          /\ Append(before, told[j]) =
                [i \in 1 .. Len(before) + 1 |-> IF i = Len(before) + 1 THEN told[j] ELSE before[i]]
        BY <2>4, <2>6
    <2>8. now = Append(before, told[j])
        <3>1. ASSUME NEW i \in 1 .. Cardinality(M) + 1
              PROVE  told[Nth(M \cup {j}, i)] = IF i = Cardinality(M) + 1 THEN told[j] ELSE before[i]
            <4>1. CASE i = Cardinality(M) + 1
                BY <2>4, <4>1
            <4>2. CASE i # Cardinality(M) + 1
                <5>1. i \in 1 .. Cardinality(M)
                    BY <2>4, <4>2
                <5> QED
                    BY <2>4, <2>6, <4>2, <5>1
            <4> QED
                BY <4>1, <4>2
        <3>2. now = [i \in 1 .. Cardinality(M) + 1 |-> IF i = Cardinality(M) + 1 THEN told[j] ELSE before[i]]
            BY <2>6, <3>1
        <3> QED
            BY <2>7, <3>2
    <2>9. told[j] = ToldOf(events, j)
        BY <1>1, <2>2
    <2> QED
        BY <1>3, <2>1, <2>2, <2>5, <2>8, <2>9 DEF ToldUpTo
<1> QED
    BY <1>2, <1>3

LEMMA PrefixOfMore ==
    ASSUME NEW T, NEW s \in Seq(T), NEW t \in Seq(T), NEW x \in T, F!IsPrefix(s, t)
    PROVE  F!IsPrefix(s, Append(t, x))
<1>1. /\ Len(s) \in Nat /\ Len(t) \in Nat /\ Len(s) <= Len(t) /\ SubSeq(s, 1, Len(s)) = SubSeq(t, 1, Len(s))
    BY LenProperties DEF F!IsPrefix
<1>2. PICK more : more = Append(t, x)
    OBVIOUS
<1>3. /\ more \in Seq(T) /\ Len(more) = Len(t) + 1 /\ \A i \in 1 .. Len(t) : more[i] = t[i]
    BY <1>2, AppendProperties
<1>4. SubSeq(more, 1, Len(s)) = SubSeq(t, 1, Len(s))
    <2>1. \A i \in 1 .. Len(s) : more[i] \in T /\ t[i] \in T /\ more[i] = t[i]
        BY <1>1, <1>3, ElementOfSeq
    <2>2. 1 \in Int /\ Len(s) \in Int
        BY <1>1
    <2>3. /\ SubSeq(more, 1, Len(s)) \in Seq(T)
          /\ Len(SubSeq(more, 1, Len(s))) = IF 1 <= Len(s) THEN Len(s) - 1 + 1 ELSE 0
          /\ \A i \in 1 .. Len(s) - 1 + 1 : SubSeq(more, 1, Len(s))[i] = more[1 + i - 1]
        BY <2>1, <2>2, SubSeqProperties
    <2>4. /\ SubSeq(t, 1, Len(s)) \in Seq(T)
          /\ Len(SubSeq(t, 1, Len(s))) = IF 1 <= Len(s) THEN Len(s) - 1 + 1 ELSE 0
          /\ \A i \in 1 .. Len(s) - 1 + 1 : SubSeq(t, 1, Len(s))[i] = t[1 + i - 1]
        BY <2>1, <2>2, SubSeqProperties
    <2>5. PICK left, right : left = SubSeq(more, 1, Len(s)) /\ right = SubSeq(t, 1, Len(s))
        OBVIOUS
    <2>6. Len(left) = Len(right) /\ Len(left) = Len(s)
        BY <1>1, <2>3, <2>4, <2>5
    <2>7. ASSUME NEW i \in 1 .. Len(left) PROVE left[i] = right[i]
        <3>1. i \in 1 .. Len(s) - 1 + 1 /\ 1 + i - 1 = i /\ i \in 1 .. Len(s)
            BY <1>1, <2>6
        <3>2. left[i] = more[i] /\ right[i] = t[i]
            BY <2>3, <2>4, <2>5, <3>1
        <3> QED
            BY <2>1, <3>1, <3>2
    <2>8. left \in Seq(T) /\ right \in Seq(T)
        BY <2>3, <2>4, <2>5
    <2> QED
        BY <2>5, <2>6, <2>7, <2>8, SeqEqual
<1>5. Len(s) <= Len(more)
    BY <1>1, <1>3
<1> QED
    BY <1>1, <1>2, <1>4, <1>5 DEF F!IsPrefix

LEMMA ToldIsASequence ==
    ASSUME NEW events \in Seq(Events), NEW n \in 0 .. Len(events)
    PROVE  ToldUpTo(events, n) \in Seq({ToldOf(events, m) : m \in 1 .. Len(events)})
<1>1. Len(events) \in Nat /\ n \in Nat
    BY LenProperties
<1>2. PICK M, told : M = WithData(events, n) /\ told = [m \in 1 .. Len(events) |-> ToldOf(events, m)]
    OBVIOUS
<1>3. M \in SUBSET Nat /\ IsFiniteSet(M) /\ M \subseteq 1 .. Len(events)
    <2>1. M \in SUBSET Nat /\ IsFiniteSet(M)
        BY <1>1, <1>2, WithDataIsFinite
    <2>2. M \subseteq 1 .. n
        BY <1>2 DEF WithData
    <2> QED
        BY <1>1, <2>1, <2>2
<1>4. Cardinality(M) \in Nat
    BY <1>3, FS_CardinalityType
<1>5. \A i \in 1 .. Cardinality(M) : Nth(M, i) \in M
    <2> SUFFICES ASSUME NEW i \in 1 .. Cardinality(M) PROVE Nth(M, i) \in M
        OBVIOUS
    <2> QED
        BY <1>3, RankIsTaken
<1>6. PICK T : T = {ToldOf(events, m) : m \in 1 .. Len(events)}
    OBVIOUS
<1>7. \A i \in 1 .. Cardinality(M) : told[Nth(M, i)] \in T
    BY <1>2, <1>3, <1>5, <1>6
<1>8. At(told, M) \in [1 .. Cardinality(M) -> T]
    BY <1>7 DEF At
<1>9. At(told, M) \in Seq(T)
    BY <1>4, <1>8
<1> QED
    BY <1>2, <1>6, <1>9 DEF ToldUpTo

LEMMA ToldIsPrefix ==
    ASSUME NEW events \in Seq(Events), NEW k \in 0 .. Len(events)
    PROVE  F!IsPrefix(ToldUpTo(events, k), ToldUpTo(events, Len(events)))
<1> DEFINE M == {d \in Nat : k + d <= Len(events) => F!IsPrefix(ToldUpTo(events, k), ToldUpTo(events, k + d))}
<1>1. Len(events) \in Nat /\ k \in Nat
    BY LenProperties
<1>2. PICK T : T = {ToldOf(events, m) : m \in 1 .. Len(events)}
    OBVIOUS
<1>3. \A n \in 0 .. Len(events) : ToldUpTo(events, n) \in Seq(T)
    BY <1>2, ToldIsASequence
<1>4. 0 \in M
    <2>1. k + 0 = k /\ Len(ToldUpTo(events, k)) \in Nat
        BY <1>1, <1>3, LenProperties
    <2> QED
        BY <2>1 DEF F!IsPrefix
<1>5. \A d \in Nat : d \in M => d + 1 \in M
    <2> SUFFICES ASSUME NEW d \in Nat, d \in M, k + (d + 1) <= Len(events)
        PROVE  F!IsPrefix(ToldUpTo(events, k), ToldUpTo(events, k + (d + 1)))
        OBVIOUS
    <2>1. PICK n, j : n = k + d /\ j = k + (d + 1)
        OBVIOUS
    <2>2. n \in 0 .. Len(events) /\ j \in n + 1 .. Len(events) /\ j \in 1 .. Len(events) /\ n + 1 .. j - 1 = {}
          /\ j \in 0 .. Len(events)
        BY <1>1, <2>1
    <2>3. F!IsPrefix(ToldUpTo(events, k), ToldUpTo(events, n))
        BY <1>1, <2>1
    <2>4. ToldUpTo(events, j) =
            IF events[j].data = None THEN ToldUpTo(events, n) ELSE Append(ToldUpTo(events, n), ToldOf(events, j))
        BY <2>2, ToldOnwards
    <2>5. ToldOf(events, j) \in T
        BY <1>2, <2>2
    <2>6. ToldUpTo(events, k) \in Seq(T) /\ ToldUpTo(events, n) \in Seq(T)
        BY <1>3, <2>2
    <2>7. F!IsPrefix(ToldUpTo(events, k), Append(ToldUpTo(events, n), ToldOf(events, j)))
        BY <2>3, <2>5, <2>6, PrefixOfMore
    <2>8. F!IsPrefix(ToldUpTo(events, k), ToldUpTo(events, j))
        BY <2>3, <2>4, <2>7
    <2> QED
        BY <2>1, <2>8
<1> HIDE DEF M
<1>6. Nat \subseteq M
    BY <1>4, <1>5, NumberInduction
<1>7. Len(events) - k \in M /\ k + (Len(events) - k) = Len(events)
    BY <1>1, <1>6
<1> QED
    BY <1>7 DEF M

(* What the text ahead stands for, and what its steps do to that. *)

Reading(events, id, got, text, k, at) ==
    /\ text \in Seq(PlainSymbols) /\ k \in 0 .. Len(events) /\ Remains(events, text, at, k)
    /\ id = LastId(events, k) /\ got = ToldUpTo(events, k)

Followed(events, id, got, text) == \E k, at : Reading(events, id, got, text, k, at)

LEMMA SilentEvents ==
    ASSUME NEW events \in Seq(Events), NEW m \in 1 .. Len(events), Size(events, m) = 0
    PROVE  events[m].id = None /\ events[m].data = None
<1>1. PICK e \in Events : e = events[m]
    BY ElementOfSeq
<1>2. Len(F!EventLines(e)) = BeforeData(e) + Counted(e.data)
    BY EventLinesAre
<1>3. PICK a, b, c, d, size : /\ a = BeforeEvent(e) /\ b = BeforeId(e) /\ c = BeforeRetry(e) /\ d = BeforeData(e)
                              /\ size = Counted(e.data)
    OBVIOUS
<1>4. /\ a \in Nat /\ b \in Nat /\ c \in Nat /\ d \in Nat /\ size \in Nat
      /\ b = a + (IF e.event = None THEN 0 ELSE 1) /\ c = b + (IF e.id = None THEN 0 ELSE 1)
      /\ d = c + (IF e.retry = None THEN 0 ELSE 1) /\ (e.data # None => size > 0)
    BY <1>3, Counts
<1>5. d + size = 0
    BY <1>1, <1>2, <1>3 DEF Size, AllLines
<1>6. e.id = None /\ e.data = None
    BY ONLY <1>4, <1>5
<1> QED
    BY <1>1, <1>6

LEMMA ReadingACut ==
    ASSUME NEW events \in Seq(Events), NEW id, NEW got, NEW text, Followed(events, id, got, text),
           NEW c \in F!Cuts(text), \A other \in F!Cuts(text) : c <= other,
           NEW event, event = F!Decoded(SubSeq(text, 1, c - 1), id)
    PROVE  Followed(events, event.id, IF event.data = None THEN got ELSE Append(got, event),
                    SubSeq(text, c + 2, Len(text)))
<1>1. PICK k, at : Reading(events, id, got, text, k, at)
    BY DEF Followed
<1>2. /\ text \in Seq(PlainSymbols) /\ k \in 0 .. Len(events) /\ Remains(events, text, at, k)
      /\ id = LastId(events, k) /\ got = ToldUpTo(events, k)
    BY <1>1 DEF Reading
<1>3. /\ Len(text) \in Nat /\ Len(events) \in Nat /\ k \in Nat /\ c \in Nat /\ c >= 1 /\ c + 1 <= Len(text)
      /\ id \in Values /\ \A n \in 1 .. Len(events) : events[n] \in Events
    BY <1>2, LenProperties, LastIdIsAValue, ElementOfSeq DEF F!Cuts
<1>4. PICK rest, d, moved : /\ rest = SubSeq(text, c + 2, Len(text)) /\ d = c + 1
                            /\ moved = [n \in Nat |-> at[n] - d]
    OBVIOUS
<1>5. d \in 0 .. Len(text) /\ rest = SubSeq(text, d + 1, Len(text))
    BY <1>3, <1>4
<1>6. \A n \in LinedAfter(events, k) :
        /\ n \in Nat /\ n > k /\ n \in 1 .. Len(events) /\ Size(events, n) \in Nat /\ Size(events, n) > 0
        /\ at[n] \in Nat
    <2> SUFFICES ASSUME NEW n \in LinedAfter(events, k)
        PROVE  /\ n \in Nat /\ n > k /\ n \in 1 .. Len(events) /\ Size(events, n) \in Nat /\ Size(events, n) > 0
               /\ at[n] \in Nat
        OBVIOUS
    <2>1. n \in 1 .. Len(events) /\ n > k /\ Size(events, n) \in Nat /\ Size(events, n) > 0
        BY <1>3, SizesAreNumbers
    <2>2. at[n] \in Nat
        BY <1>2 DEF Remains, StandsAt
    <2> QED
        BY <2>1, <2>2
<1>7. CASE StrayCut(events, at, k, c)
    <2>1. c = 1 /\ d = 2 /\ \A n \in LinedAfter(events, k) : at[n] > d
        BY <1>4, <1>7 DEF StrayCut
    <2>2. /\ k \in k .. Len(events)
          /\ \A n \in LinedAfter(events, k) : IF n <= k THEN at[n] + 2 * Size(events, n) <= d + 1 ELSE at[n] > d
        BY <1>2, <1>3, <1>6, <2>1
    <2>3. rest \in Seq(PlainSymbols) /\ Remains(events, rest, moved, k)
        BY <1>2, <1>4, <1>5, <2>2, RemainsFrom
    <2>4. SubSeq(text, 1, c - 1) = <<>>
        <3>1. c - 1 \in Int /\ 1 \in Int /\ c - 1 < 1
            BY <2>1
        <3> QED
            BY <3>1, SubSeqEmpty
    <2>5. event.data = None /\ event.id = id
        BY <1>3, <2>4, NothingIsDecoded
    <2>6. Reading(events, id, got, rest, k, moved)
        BY <1>2, <2>3 DEF Reading
    <2> QED
        BY <1>4, <2>5, <2>6 DEF Followed
<1>8. ASSUME NEW j \in Nat, EventCut(events, text, at, k, c, j)
      PROVE  Followed(events, event.id, IF event.data = None THEN got ELSE Append(got, event), rest)
    <2>1. /\ j \in LinedAfter(events, k) /\ \A n \in LinedAfter(events, k) : n >= j
          /\ c = at[j] + 2 * Size(events, j) - 1
        BY <1>8 DEF EventCut
    <2>2. j \in k + 1 .. Len(events) /\ j \in k .. Len(events) /\ j \in 1 .. Len(events) /\ j \in 0 .. Len(events)
        BY <1>3, <1>6, <2>1
    <2>3. ASSUME NEW n \in LinedAfter(events, k)
          PROVE  IF n <= j THEN at[n] + 2 * Size(events, n) <= d + 1 ELSE at[n] > d
        <3>0. at[n] \in Nat /\ at[j] \in Nat /\ Size(events, j) \in Nat /\ c = at[j] + 2 * Size(events, j) - 1 /\ d = c + 1
            BY <1>4, <1>6, <2>1
        <3>1. CASE n = j
            <4>1. at[j] + 2 * Size(events, j) <= d + 1 /\ n <= j
                <5>1. n \in Nat /\ n = j
                    BY <3>1
                <5> QED
                    BY ONLY <3>0, <5>1
            <4> QED
                BY <3>1, <4>1
        <3>2. CASE n # j
            <4>1. n > j /\ ~(n <= j)
                BY <1>6, <2>1, <3>2
            <4>2. at[j] + 2 * Size(events, j) < at[n]
                BY <1>2, <2>1, <4>1 DEF Remains
            <4>3. at[n] > d
                BY ONLY <3>0, <4>2
            <4> QED
                BY <4>1, <4>3
        <3> QED
            BY <3>1, <3>2
    <2>4. rest \in Seq(PlainSymbols) /\ Remains(events, rest, moved, j)
        BY <1>2, <1>4, <1>5, <2>2, <2>3, RemainsFrom
    <2>5. event = WhatIsRead(events[j], id)
        <3>1. PICK frame : frame = SubSeq(text, 1, c - 1)
            OBVIOUS
        <3>2. F!Decoded(frame, id) = WhatIsRead(events[j], id)
            <4>1. text \in Seq(PlainSymbols) /\ k \in 0 .. Len(events) /\ Remains(events, text, at, k) /\ id \in Values
                BY <1>2, <1>3
            <4>2. FrameOf(events, text, at, k, c, j, frame)
                BY <1>8, <3>1, <4>1 DEF FrameOf
            <4> QED
                BY <4>1, <4>2, CutFrame
        <3> QED
            BY <3>1, <3>2
    <2>6. \A m \in k + 1 .. j - 1 : events[m].id = None /\ events[m].data = None
        <3> SUFFICES ASSUME NEW m \in k + 1 .. j - 1 PROVE events[m].id = None /\ events[m].data = None
            OBVIOUS
        <3>1. m \in 1 .. Len(events) /\ m \in k + 1 .. Len(events) /\ ~(m >= j)
            BY <1>3, <2>2
        <3>2. m \notin LinedAfter(events, k)
            BY <2>1, <3>1
        <3>3. Size(events, m) = 0
            <4>1. Size(events, m) \in Nat
                BY <1>3, <3>1, SizesAreNumbers
            <4> QED
                BY <3>1, <3>2, <4>1 DEF LinedAfter
        <3> QED
            BY <3>1, <3>3, SilentEvents
    <2>7. event.id = LastId(events, j)
        <3>1. LastId(events, j) = IF events[j].id = None THEN LastId(events, k) ELSE events[j].id
            <4>1. k < j /\ \A m \in k + 1 .. j - 1 : events[m].id = None
                BY <1>3, <2>2, <2>6
            <4> QED
                BY <1>3, <4>1, LastIdOnwards
        <3> QED
            BY <1>2, <2>5, <3>1 DEF WhatIsRead
    <2>8. event = ToldOf(events, j)
        <3>1. PICK e \in Events : e = events[j]
            BY <1>3, <2>2
        <3>2. DOMAIN e = {"comment", "event", "id", "retry", "data"}
            BY FramesConstants
        <3>3. ToldOf(events, j) = [e EXCEPT !.comment = None, !.id = event.id]
            BY <2>7, <3>1 DEF ToldOf
        <3>4. event = [comment |-> None, event |-> e.event, id |-> event.id, retry |-> e.retry, data |-> e.data]
            BY <2>5, <3>1 DEF WhatIsRead
        <3> QED
            BY <3>2, <3>3, <3>4
    <2>9. (IF event.data = None THEN got ELSE Append(got, event)) = ToldUpTo(events, j)
        <3>1. event.data = events[j].data
            BY <2>5 DEF WhatIsRead
        <3>2. ToldUpTo(events, j) =
                IF events[j].data = None THEN ToldUpTo(events, k) ELSE Append(ToldUpTo(events, k), ToldOf(events, j))
            BY <1>2, <2>2, <2>6, ToldOnwards
        <3> QED
            BY <1>2, <2>8, <3>1, <3>2
    <2>10. Reading(events, event.id, IF event.data = None THEN got ELSE Append(got, event), rest, j, moved)
        BY <2>2, <2>4, <2>7, <2>9 DEF Reading
    <2> QED
        BY <2>10 DEF Followed
<1>9. StrayCut(events, at, k, c) \/ \E j \in Nat : EventCut(events, text, at, k, c, j)
    BY <1>2, FirstCut
<1> QED
    BY <1>4, <1>7, <1>8, <1>9

\* The lines of all events when there is one more.
Grown(events, e, more, k) ==
    /\ more \in Seq(Events) /\ Len(more) = Len(events) + 1 /\ Len(events) \in Nat
    /\ AllLines(more, Len(events) + 1) = F!EventLines(e) /\ Size(more, Len(events) + 1) = Len(F!EventLines(e))
    /\ \A n \in 1 .. Len(events) : AllLines(more, n) = AllLines(events, n) /\ Size(more, n) = Size(events, n)
    /\ \A n \in LinedAfter(events, k) : n \in LinedAfter(more, k) /\ n \in 1 .. Len(events)
    /\ \A n \in LinedAfter(more, k) :
        n \in LinedAfter(events, k) \/ (n = Len(events) + 1 /\ Len(F!EventLines(e)) > 0)

LEMMA MoreEvents ==
    ASSUME NEW events \in Seq(Events), NEW e \in Events, NEW more, more = Append(events, e), NEW k \in 0 .. Len(events)
    PROVE  Grown(events, e, more, k)
<1>1. /\ more \in Seq(Events) /\ Len(more) = Len(events) + 1 /\ Len(events) \in Nat /\ k \in Nat
      /\ more[Len(events) + 1] = e /\ \A n \in 1 .. Len(events) : more[n] = events[n]
    BY AppendProperties, LenProperties
<1>2. AllLines(more, Len(events) + 1) = F!EventLines(e) /\ Size(more, Len(events) + 1) = Len(F!EventLines(e))
    BY <1>1 DEF AllLines, Size
<1>3. \A n \in 1 .. Len(events) : AllLines(more, n) = AllLines(events, n) /\ Size(more, n) = Size(events, n)
    BY <1>1 DEF AllLines, Size
<1>4. ASSUME NEW n \in LinedAfter(events, k) PROVE n \in LinedAfter(more, k) /\ n \in 1 .. Len(events)
    <2>1. n \in k + 1 .. Len(events) /\ n \in k + 1 .. Len(more) /\ n \in 1 .. Len(events) /\ Size(events, n) > 0
        BY <1>1 DEF LinedAfter
    <2> QED
        BY <1>3, <2>1 DEF LinedAfter
<1>5. ASSUME NEW n \in LinedAfter(more, k)
      PROVE  n \in LinedAfter(events, k) \/ (n = Len(events) + 1 /\ Len(F!EventLines(e)) > 0)
    <2>1. n \in k + 1 .. Len(more) /\ Size(more, n) > 0
        BY DEF LinedAfter
    <2>2. n = Len(events) + 1 \/ (n \in k + 1 .. Len(events) /\ n \in 1 .. Len(events))
        BY <1>1, <2>1
    <2> QED
        BY <1>2, <1>3, <2>1, <2>2 DEF LinedAfter
<1> QED
    BY <1>1, <1>2, <1>3, <1>4, <1>5 DEF Grown

\* An event stands where it stood when the text grows at its end.
LEMMA StandsStill ==
    ASSUME NEW events \in Seq(Events), NEW n \in 1 .. Len(events), NEW more, NEW from,
           AllLines(more, n) = AllLines(events, n), Size(more, n) = Size(events, n),
           NEW text \in Seq(PlainSymbols), NEW longer, Len(longer) \in Nat, Len(text) <= Len(longer),
           \A p \in 1 .. Len(text) : longer[p] = text[p], StandsAt(events, text, n, from)
    PROVE  StandsAt(more, longer, n, from)
<1>1. Len(text) \in Nat /\ Size(events, n) \in Nat
    BY LenProperties, SizesAreNumbers
<1>2. PICK size : size = Size(events, n)
    OBVIOUS
<1>3. /\ size \in Nat /\ from \in Nat /\ from >= 1 /\ from + 2 * size <= Len(text)
      /\ \A i \in 1 .. size : text[from + 2 * i - 2] = AllLines(events, n)[i] /\ text[from + 2 * i - 1] = F!LF
      /\ text[from + 2 * size] = F!LF
    BY <1>1, <1>2 DEF StandsAt
<1>4. ASSUME NEW i \in 1 .. size
      PROVE  longer[from + 2 * i - 2] = AllLines(events, n)[i] /\ longer[from + 2 * i - 1] = F!LF
    <2>1. from + 2 * i - 2 \in 1 .. Len(text) /\ from + 2 * i - 1 \in 1 .. Len(text)
        BY <1>1, <1>3
    <2> QED
        BY <1>3, <2>1
<1>5. longer[from + 2 * size] = F!LF /\ from + 2 * size <= Len(longer)
    <2>1. from + 2 * size \in 1 .. Len(text)
        BY <1>1, <1>3
    <2>2. from + 2 * size <= Len(longer)
        BY <1>1, <1>3
    <2> QED
        BY <1>3, <2>1, <2>2
<1> QED
    BY <1>2, <1>3, <1>4, <1>5 DEF StandsAt

LEMMA ReadingUnwritten ==
    ASSUME NEW events \in Seq(Events), NEW id, NEW got, NEW text, Followed(events, id, got, text),
           NEW e \in Events, F!EventLines(e) = <<>>, NEW more, more = Append(events, e)
    PROVE  Followed(more, id, got, text)
<1>1. PICK k, at : Reading(events, id, got, text, k, at)
    BY DEF Followed
<1>2. /\ text \in Seq(PlainSymbols) /\ k \in 0 .. Len(events) /\ Remains(events, text, at, k)
      /\ id = LastId(events, k) /\ got = ToldUpTo(events, k)
    BY <1>1 DEF Reading
<1>3. Len(text) \in Nat /\ Len(text) <= Len(text)
    BY <1>2, LenProperties
<1>4. Len(F!EventLines(e)) = 0
    BY EmptySeq
<1>5. /\ Len(more) = Len(events) + 1 /\ Len(events) \in Nat
      /\ \A n \in 1 .. Len(events) : AllLines(more, n) = AllLines(events, n) /\ Size(more, n) = Size(events, n)
      /\ \A n \in LinedAfter(events, k) : n \in LinedAfter(more, k) /\ n \in 1 .. Len(events)
      /\ \A n \in LinedAfter(more, k) : n \in LinedAfter(events, k)
    <2>1. Grown(events, e, more, k)
        BY <1>2, MoreEvents
    <2> QED
        BY <1>4, <2>1 DEF Grown
<1>6. ASSUME NEW n \in LinedAfter(more, k) PROVE StandsAt(more, text, n, at[n])
    <2>1. n \in LinedAfter(events, k) /\ n \in 1 .. Len(events)
        BY <1>5
    <2>2. StandsAt(events, text, n, at[n]) /\ AllLines(more, n) = AllLines(events, n) /\ Size(more, n) = Size(events, n)
        BY <1>2, <1>5, <2>1 DEF Remains
    <2> QED
        BY <2>2 DEF StandsAt
<1>7. ASSUME NEW n \in LinedAfter(more, k), NEW m \in LinedAfter(more, k), n < m
      PROVE  at[n] + 2 * Size(more, n) < at[m]
    <2>1. n \in LinedAfter(events, k) /\ m \in LinedAfter(events, k) /\ Size(more, n) = Size(events, n)
        BY <1>5
    <2> QED
        BY <1>2, <1>7, <2>1 DEF Remains
<1>8. ASSUME NEW p \in 1 .. Len(text), text[p] # F!LF PROVE IsOwned(more, at, k, p)
    <2>1. PICK n \in LinedAfter(events, k) : Owns(events, at, n, p)
        BY <1>2, <1>8 DEF Remains, IsOwned
    <2>2. n \in LinedAfter(more, k) /\ Size(more, n) = Size(events, n)
        BY <1>5
    <2> QED
        BY <2>1, <2>2 DEF IsOwned, Owns
<1>9. Remains(more, text, at, k)
    BY <1>6, <1>7, <1>8 DEF Remains
<1>10. k \in 0 .. Len(more) /\ LastId(more, k) = LastId(events, k) /\ ToldUpTo(more, k) = ToldUpTo(events, k)
    <2>1. k \in 0 .. Len(more)
        BY <1>2, <1>5
    <2> QED
        BY <1>2, <2>1, ToldStays
<1> QED
    BY <1>2, <1>9, <1>10 DEF Followed, Reading

LEMMA ReadingWritten ==
    ASSUME NEW events \in Seq(Events), NEW id, NEW got, NEW text, Followed(events, id, got, text),
           NEW e \in Events, NEW block \in Seq(PlainSymbols), IsBlock(block, F!EventLines(e)),
           NEW more, more = Append(events, e), NEW longer, longer = text \o block
    PROVE  Followed(more, id, got, longer)
<1>1. PICK k, at : Reading(events, id, got, text, k, at)
    BY DEF Followed
<1>2. /\ text \in Seq(PlainSymbols) /\ k \in 0 .. Len(events) /\ Remains(events, text, at, k)
      /\ id = LastId(events, k) /\ got = ToldUpTo(events, k)
    BY <1>1 DEF Reading
<1>3. PICK all, size, end, last : /\ all = F!EventLines(e) /\ size = Len(all) /\ end = Len(text)
                                  /\ last = Len(events) + 1
    OBVIOUS
<1>4. longer \in Seq(PlainSymbols) /\ Follows(longer, text, block)
    BY <1>2, TwoJoined
<1>5. /\ size \in Nat /\ end \in Nat /\ Len(longer) = end + 2 * size + 1
      /\ \A p \in 1 .. end : longer[p] = text[p]
      /\ \A p \in 1 .. 2 * size + 1 : longer[end + p] = block[p]
      /\ \A i \in 1 .. size : block[2 * i - 1] = all[i] /\ block[2 * i] = F!LF
      /\ block[2 * size + 1] = F!LF
    <2>1. size \in Nat /\ end \in Nat
        <3>1. all \in Seq(TextLines)
            BY <1>3, EventLinesAre
        <3> QED
            BY <1>2, <1>3, <3>1, LenProperties
    <2>2. /\ Len(block) = 2 * size + 1
          /\ \A i \in 1 .. size : block[2 * i - 1] = all[i] /\ block[2 * i] = F!LF
          /\ block[2 * size + 1] = F!LF
        BY <1>3 DEF IsBlock
    <2>3. /\ Len(longer) = Len(text) + Len(block)
          /\ \A p \in 1 .. Len(text) : longer[p] = text[p]
          /\ \A p \in 1 .. Len(block) : longer[Len(text) + p] = block[p]
        BY <1>4 DEF Follows
    <2>4. Len(longer) = end + 2 * size + 1
        BY <1>3, <2>1, <2>2, <2>3
    <2> QED
        BY <1>3, <2>1, <2>2, <2>3, <2>4
<1>6. /\ Len(more) = last /\ Len(events) \in Nat
      /\ AllLines(more, last) = all /\ Size(more, last) = size
      /\ \A n \in 1 .. Len(events) : AllLines(more, n) = AllLines(events, n) /\ Size(more, n) = Size(events, n)
      /\ \A n \in LinedAfter(events, k) : n \in LinedAfter(more, k) /\ n \in 1 .. Len(events)
      /\ \A n \in LinedAfter(more, k) : n \in LinedAfter(events, k) \/ (n = last /\ size > 0)
    <2>1. Grown(events, e, more, k)
        BY <1>2, MoreEvents
    <2> QED
        BY <1>3, <2>1 DEF Grown
<1>7. PICK now : now = [n \in Nat |-> IF n = last THEN end + 1 ELSE at[n]]
    OBVIOUS
<1>8. /\ last \in Nat /\ now[last] = end + 1
      /\ \A n \in LinedAfter(events, k) : n \in Nat /\ n < last /\ n # last /\ now[n] = at[n] /\ at[n] \in Nat
                                          /\ Size(events, n) \in Nat /\ at[n] + 2 * Size(events, n) <= end
    <2>1. last \in Nat
        BY <1>3, <1>6
    <2>2. ASSUME NEW n \in LinedAfter(events, k)
          PROVE  /\ n \in Nat /\ n < last /\ n # last /\ now[n] = at[n] /\ at[n] \in Nat
                 /\ Size(events, n) \in Nat /\ at[n] + 2 * Size(events, n) <= end
        <3>1. n \in 1 .. Len(events) /\ n \in Nat /\ n < last /\ n # last
            BY <1>3, <1>6
        <3>2. StandsAt(events, text, n, at[n])
            BY <1>2 DEF Remains
        <3>3. at[n] \in Nat /\ at[n] + 2 * Size(events, n) <= end
            BY <1>3, <3>2 DEF StandsAt
        <3>4. Size(events, n) \in Nat
            BY <1>6, <3>1, SizesAreNumbers
        <3> QED
            BY <1>7, <3>1, <3>3, <3>4
    <2> QED
        BY <1>7, <2>1, <2>2
<1>9. ASSUME NEW n \in LinedAfter(more, k) PROVE StandsAt(more, longer, n, now[n])
    <2>1. CASE n \in LinedAfter(events, k)
        <3>1. /\ n \in 1 .. Len(events) /\ AllLines(more, n) = AllLines(events, n) /\ Size(more, n) = Size(events, n)
            BY <1>6, <2>1
        <3>2. StandsAt(events, text, n, at[n])
            BY <1>2, <2>1 DEF Remains
        <3>3. Len(longer) \in Nat /\ Len(text) <= Len(longer) /\ \A p \in 1 .. Len(text) : longer[p] = text[p]
            BY <1>3, <1>5
        <3>4. StandsAt(more, longer, n, at[n])
            BY <1>2, <3>1, <3>2, <3>3, StandsStill
        <3> QED
            BY <1>8, <2>1, <3>4
    <2>2. CASE n = last
        <3>1. ASSUME NEW i \in 1 .. size
              PROVE  longer[(end + 1) + 2 * i - 2] = all[i] /\ longer[(end + 1) + 2 * i - 1] = F!LF
            <4>1. /\ 2 * i - 1 \in 1 .. 2 * size + 1 /\ 2 * i \in 1 .. 2 * size + 1
                  /\ (end + 1) + 2 * i - 2 = end + (2 * i - 1) /\ (end + 1) + 2 * i - 1 = end + 2 * i
                BY <1>5
            <4> QED
                BY <1>5, <4>1
        <3>2. longer[(end + 1) + 2 * size] = F!LF /\ (end + 1) + 2 * size <= Len(longer)
            <4>1. 2 * size + 1 \in 1 .. 2 * size + 1 /\ (end + 1) + 2 * size = end + (2 * size + 1)
                BY <1>5
            <4>2. (end + 1) + 2 * size <= Len(longer)
                BY <1>5
            <4> QED
                BY <1>5, <4>1, <4>2
        <3>3. end + 1 \in Nat /\ end + 1 >= 1
            BY <1>5
        <3>4. StandsAt(more, longer, last, end + 1)
            BY <1>6, <3>1, <3>2, <3>3 DEF StandsAt
        <3> QED
            BY <1>8, <2>2, <3>4
    <2> QED
        BY <1>6, <2>1, <2>2
<1>10. ASSUME NEW n \in LinedAfter(more, k), NEW m \in LinedAfter(more, k), n < m
       PROVE  now[n] + 2 * Size(more, n) < now[m]
    <2>1. n \in LinedAfter(events, k)
        <3>1. n # last
            <4>1. m \in LinedAfter(events, k) \/ m = last
                BY <1>6
            <4>2. m <= last
                BY <1>8, <4>1
            <4> QED
                BY <1>8, <1>10, <4>1, <4>2
        <3> QED
            BY <1>6, <3>1
    <2>2. Size(more, n) = Size(events, n)
        BY <1>6, <2>1
    <2>3. CASE m \in LinedAfter(events, k)
        <3>1. at[n] + 2 * Size(events, n) < at[m]
            BY <1>2, <1>10, <2>1, <2>3 DEF Remains
        <3> QED
            BY <1>8, <2>1, <2>2, <2>3, <3>1
    <2>4. CASE m = last
        <3>1. at[n] \in Nat /\ Size(events, n) \in Nat /\ at[n] + 2 * Size(events, n) <= end /\ end \in Nat
            BY <1>5, <1>8, <2>1
        <3>2. now[n] = at[n] /\ now[m] = end + 1
            BY <1>8, <2>1, <2>4
        <3> QED
            BY <2>2, <3>1, <3>2
    <2> QED
        BY <1>6, <2>3, <2>4
<1>11. ASSUME NEW p \in 1 .. Len(longer), longer[p] # F!LF PROVE IsOwned(more, now, k, p)
    <2>1. CASE p <= end
        <3>1. p \in 1 .. Len(text) /\ text[p] # F!LF
            BY <1>3, <1>5, <1>11, <2>1
        <3>2. PICK n \in LinedAfter(events, k) : Owns(events, at, n, p)
            BY <1>2, <3>1 DEF Remains, IsOwned
        <3>3. n \in LinedAfter(more, k) /\ Size(more, n) = Size(events, n) /\ now[n] = at[n]
            BY <1>6, <1>8
        <3> QED
            BY <3>2, <3>3 DEF IsOwned, Owns
    <2>2. CASE p > end
        <3>1. PICK q : q = p - end
            OBVIOUS
        <3>2. q \in 1 .. 2 * size + 1 /\ p = end + q /\ q \in Nat
            BY <1>5, <2>2, <3>1
        <3>3. block[q] # F!LF
            BY <1>5, <1>11, <3>2
        <3>4. PICK i \in Nat : q = 2 * i \/ q = 2 * i + 1
            BY <3>2, EvenOrOdd
        <3>5. CASE q = 2 * i
            <4>1. i \in 1 .. size
                BY <1>5, <3>2, <3>5
            <4> QED
                BY <1>5, <3>3, <3>5, <4>1
        <3>6. CASE q = 2 * i + 1
            <4>1. i # size
                BY <1>5, <3>3, <3>6
            <4>2. i + 1 \in 1 .. size /\ p = (end + 1) + 2 * (i + 1) - 2
                BY <1>5, <3>2, <3>6, <4>1
            <4>3. size > 0
                BY <1>5, <4>2
            <4>4. last \in LinedAfter(more, k)
                <5>1. last \in k + 1 .. Len(more)
                    BY <1>2, <1>3, <1>6
                <5> QED
                    BY <1>6, <4>3, <5>1 DEF LinedAfter
            <4>5. Owns(more, now, last, p)
                BY <1>6, <1>8, <4>2 DEF Owns
            <4> QED
                BY <4>4, <4>5 DEF IsOwned
        <3> QED
            BY <3>4, <3>5, <3>6
    <2> QED
        BY <1>5, <2>1, <2>2
<1>12. Remains(more, longer, now, k)
    BY <1>9, <1>10, <1>11 DEF Remains
<1>13. k \in 0 .. Len(more) /\ LastId(more, k) = LastId(events, k) /\ ToldUpTo(more, k) = ToldUpTo(events, k)
    <2>1. k \in 0 .. Len(more)
        BY <1>2, <1>3, <1>6
    <2> QED
        BY <1>2, <2>1, ToldStays
<1> QED
    BY <1>2, <1>4, <1>12, <1>13 DEF Followed, Reading

LEMMA ReadingEnds ==
    ASSUME NEW events \in Seq(Events), NEW id, NEW got, NEW text, Followed(events, id, got, text)
    PROVE  /\ F!IsPrefix(got, ToldUpTo(events, Len(events)))
           /\ F!Cuts(text) = {} => got = ToldUpTo(events, Len(events))
<1>1. PICK k, at : Reading(events, id, got, text, k, at)
    BY DEF Followed
<1>2. /\ text \in Seq(PlainSymbols) /\ k \in 0 .. Len(events) /\ Remains(events, text, at, k)
      /\ got = ToldUpTo(events, k)
    BY <1>1 DEF Reading
<1>3. F!IsPrefix(got, ToldUpTo(events, Len(events)))
    BY <1>2, ToldIsPrefix
<1>4. ASSUME F!Cuts(text) = {} PROVE got = ToldUpTo(events, Len(events))
    <2>1. Len(events) \in Nat /\ k \in Nat
        BY <1>2, LenProperties
    <2>2. CASE k = Len(events)
        BY <1>2, <2>2
    <2>3. CASE k # Len(events)
        <3>1. ASSUME NEW m \in k + 1 .. Len(events) PROVE events[m].data = None
            <4>1. m \in 1 .. Len(events) /\ Size(events, m) \in Nat
                BY <2>1, SizesAreNumbers
            <4>2. m \notin LinedAfter(events, k)
                <5> SUFFICES ASSUME m \in LinedAfter(events, k) PROVE FALSE
                    OBVIOUS
                <5>1. StandsAt(events, text, m, at[m]) /\ Size(events, m) > 0
                    BY <1>2 DEF Remains, LinedAfter
                <5>2. at[m] + 2 * Size(events, m) - 1 \in F!Cuts(text)
                    BY <1>2, <4>1, <5>1, StandingIsCut
                <5> QED
                    BY <1>4, <5>2
            <4>3. Size(events, m) = 0
                BY <4>1, <4>2 DEF LinedAfter
            <4> QED
                BY <4>1, <4>3, SilentEvents
        <3>2. /\ Len(events) \in k + 1 .. Len(events)
              /\ \A m \in k + 1 .. Len(events) - 1 : m \in k + 1 .. Len(events)
            BY <1>2, <2>1, <2>3
        <3>3. events[Len(events)].data = None /\ \A m \in k + 1 .. Len(events) - 1 : events[m].data = None
            BY <3>1, <3>2
        <3>4. ToldUpTo(events, Len(events)) = ToldUpTo(events, k)
            BY <1>2, <3>2, <3>3, ToldOnwards
        <3> QED
            BY <1>2, <3>4
    <2> QED
        BY <2>2, <2>3
<1> QED
    BY <1>3, <1>4

(* Reading a chunk, and the mark at the beginning of the stream. *)

IsAhead(buf, coming, fresh, text) ==
    buf \o coming = text \/ (fresh /\ Len(buf) < 3 /\ buf \o coming = F!BOM \o text)

LEMMA TheMark == F!BOM \in Seq({Mark}) /\ F!BOM \in Seq(Symbols) /\ Len(F!BOM) = 3 /\ \A n \in 1 .. 3 : F!BOM[n] = Mark
<1>1. Mark \in Symbols
    BY DEF Symbols
<1> QED
    BY <1>1 DEF F!BOM, Mark

LEMMA HeldBack ==
    ASSUME NEW chunk \in Seq(Symbols), NEW kept, kept = F!Held(chunk) \/ kept = <<>>,
           NEW front, front = SubSeq(chunk, 1, Len(chunk) - Len(kept))
    PROVE  /\ front \in Seq(Symbols) /\ kept \in Seq(Symbols) /\ chunk = front \o kept
           /\ kept # <<>> => kept = <<F!CR>>
           /\ kept = F!Held(chunk) /\ kept = <<>> => ~EndsWithCR(front)
<1>1. Len(chunk) \in Nat
    BY LenProperties
<1>2. CASE kept = <<>>
    <2>1. Len(kept) = 0 /\ kept \in Seq(Symbols)
        BY <1>2, EmptySeq
    <2>2. front = chunk
        <3>1. Len(chunk) - Len(kept) = Len(chunk)
            BY <1>1, <2>1
        <3> QED
            BY <3>1, SubSeqFull
    <2>3. chunk = front \o kept
        BY <1>2, <2>2, ConcatEmptySeq
    <2>4. ASSUME kept = F!Held(chunk) PROVE ~EndsWithCR(front)
        <3> SUFFICES ASSUME EndsWithCR(chunk) PROVE FALSE
            BY <2>2
        <3>1. F!Held(chunk) = <<F!CR>>
            BY DEF F!Held, EndsWithCR, F!Last
        <3>2. <<F!CR>> # <<>>
            BY OneSymbol
        <3> QED
            BY <1>2, <2>4, <3>1, <3>2
    <2> QED
        BY <1>2, <2>1, <2>2, <2>3, <2>4
<1>3. CASE kept # <<>>
    <2>1. kept = <<F!CR>> /\ chunk # <<>> /\ chunk[Len(chunk)] = F!CR
        BY <1>3 DEF F!Held, F!Last
    <2>2. F!CR \in Symbols
        BY DEF Symbols, PlainSymbols
    <2>3. kept \in Seq(Symbols) /\ Len(kept) = 1
        BY <2>1, <2>2, OneSymbol
    <2>4. Len(chunk) > 0
        BY <1>1, <2>1, EmptySeq
    <2>5. 1 \in 1 .. Len(chunk) /\ Len(chunk) \in 1 .. Len(chunk) /\ Len(chunk) - Len(kept) = Len(chunk) - 1
        BY <1>1, <2>3, <2>4
    <2>6. SubSeq(chunk, 1, Len(chunk)) = SubSeq(chunk, 1, Len(chunk) - 1) \o <<chunk[Len(chunk)]>>
        BY <2>5, SubSeqRecursiveSecond
    <2>7. SubSeq(chunk, 1, Len(chunk)) = chunk
        BY SubSeqFull
    <2>8. chunk = front \o kept
        BY <2>1, <2>5, <2>6, <2>7
    <2>9. front \in Seq(Symbols)
        <3>1. 1 \in Int /\ Len(chunk) - 1 \in Int /\ \A i \in 1 .. Len(chunk) - 1 : chunk[i] \in Symbols
            BY <1>1, ElementOfSeq
        <3> QED
            BY <2>5, <3>1, SubSeqProperties
    <2> QED
        BY <1>3, <2>1, <2>3, <2>8, <2>9
<1> QED
    BY <1>2, <1>3

Parted(back, arrived, rest, buf, kept, front, read) ==
    /\ kept = F!Held(back \o arrived) \/ (kept = <<>> /\ rest = <<>>)
    /\ front = SubSeq(back \o arrived, 1, Len(back \o arrived) - Len(kept))
    /\ read = buf \o F!Unified(front)

Together(back, arrived, rest, buf, kept, read) ==
    /\ kept \in Seq(Symbols) /\ read \in Seq(Symbols) /\ F!Unified(kept \o rest) \in Seq(Symbols)
    /\ read \o F!Unified(kept \o rest) = buf \o F!Unified(back \o (arrived \o rest))

\* What is held back and what comes after are read as if they came at once.
LEMMA ReadTogether ==
    ASSUME NEW back \in Seq(Symbols), NEW arrived \in Seq(Symbols), NEW rest \in Seq(Symbols), NEW buf \in Seq(Symbols),
           NEW kept, NEW front, NEW read, Parted(back, arrived, rest, buf, kept, front, read)
    PROVE  Together(back, arrived, rest, buf, kept, read)
<1>1. F!LF \in Symbols /\ F!CR \in Symbols
    BY DEF Symbols, PlainSymbols
<1>13. PICK chunk : chunk = back \o arrived
    OBVIOUS
<1>2. /\ chunk \in Seq(Symbols) /\ front = SubSeq(chunk, 1, Len(chunk) - Len(kept))
      /\ kept = F!Held(chunk) \/ (kept = <<>> /\ rest = <<>>)
      /\ read = buf \o F!Unified(front)
    BY <1>13, ConcatProperties DEF Parted
<1>3. /\ front \in Seq(Symbols) /\ kept \in Seq(Symbols) /\ chunk = front \o kept
      /\ kept # <<>> => kept = <<F!CR>>
      /\ kept = F!Held(chunk) /\ kept = <<>> => ~EndsWithCR(front)
    <2>1. kept = F!Held(chunk) \/ kept = <<>>
        BY <1>2
    <2>2. chunk \in Seq(Symbols) /\ front = SubSeq(chunk, 1, Len(chunk) - Len(kept))
        BY <1>2
    <2> QED
        BY ONLY <2>1, <2>2, HeldBack, ZenonT(60)
<1>4. PICK later : later = kept \o rest
    OBVIOUS
<1>5. later \in Seq(Symbols) /\ Follows(later, kept, rest)
    BY <1>3, <1>4, TwoJoined
<1>6. ~(EndsWithCR(front) /\ BeginsWithLF(later))
    <2>1. CASE kept # <<>>
        <3>1. kept = <<F!CR>> /\ Len(kept) = 1 /\ kept[1] = F!CR
            BY <1>1, <1>3, <2>1, OneSymbol
        <3>2. later[1] = kept[1]
            BY <1>5, <3>1 DEF Follows
        <3> QED
            BY <3>1, <3>2, EndsOfLinesDiffer DEF BeginsWithLF
    <2>2. CASE kept = <<>> /\ kept = F!Held(chunk)
        BY <1>3, <2>2
    <2>3. CASE kept = <<>> /\ rest = <<>>
        <3>1. later = <<>>
            BY <1>4, <2>3, ConcatEmptySeq
        <3> QED
            BY <3>1 DEF BeginsWithLF
    <2> QED
        BY <1>2, <2>1, <2>2, <2>3
<1>7. \A x, y, z \in Seq(Symbols) : (x \o y) \o z = x \o (y \o z)
    BY ONLY ConcatAssociative, SMTT(60)
<1>8. back \o (arrived \o rest) = front \o later
    <2>1. back \o (arrived \o rest) = (back \o arrived) \o rest
        BY <1>7, Zenon
    <2>2. (front \o kept) \o rest = front \o (kept \o rest)
        <3>1. front \in Seq(Symbols) /\ kept \in Seq(Symbols) /\ rest \in Seq(Symbols)
            BY <1>3
        <3> QED
            BY ONLY <1>7, <3>1, SMTT(60)
    <2> QED
        BY <1>3, <1>4, <1>13, <2>1, <2>2
<1>9. F!Unified(front \o later) = F!Unified(front) \o F!Unified(later)
    BY <1>1, <1>3, <1>5, <1>6, UnifiedJoins
<1>10. F!Unified(front) \in Seq(Symbols) /\ F!Unified(later) \in Seq(Symbols)
    BY <1>1, <1>3, <1>5, UnifiedGrows
<1>11. read \in Seq(Symbols)
    BY <1>2, <1>10, ConcatProperties
<1>12. (buf \o F!Unified(front)) \o F!Unified(later) = buf \o (F!Unified(front) \o F!Unified(later))
    <2>1. buf \in Seq(Symbols) /\ F!Unified(front) \in Seq(Symbols) /\ F!Unified(later) \in Seq(Symbols)
        BY <1>10
    <2> QED
        BY ONLY <1>7, <2>1, Zenon
<1> QED
    BY <1>2, <1>3, <1>4, <1>8, <1>9, <1>10, <1>11, <1>12 DEF Together

Looked(read, last) == Len(read) >= Len(F!BOM) \/ last \/ \E n \in DOMAIN read : F!IsLine(read[n])

\* The mark is removed once it is there, and nothing else is.
LEMMA MarkIsRemoved ==
    ASSUME NEW read \in Seq(Symbols), NEW coming \in Seq(Symbols), NEW text \in Seq(PlainSymbols),
           NEW last \in BOOLEAN, last => coming = <<>>, NEW fresh \in BOOLEAN,
           read \o coming = text \/ (fresh /\ read \o coming = F!BOM \o text),
           NEW buf, buf = IF fresh /\ Looked(read, last) /\ F!IsPrefix(F!BOM, read)
                          THEN SubSeq(read, Len(F!BOM) + 1, Len(read)) ELSE read,
           NEW still, still = (fresh /\ ~Looked(read, last))
    PROVE  buf \in Seq(Symbols) /\ IsAhead(buf, coming, still, text)
<1>1. /\ Len(read) \in Nat /\ Len(coming) \in Nat /\ Len(text) \in Nat
      /\ \A n \in 1 .. Len(read) : read[n] \in Symbols
      /\ DOMAIN read = 1 .. Len(read)
    BY LenProperties, ElementOfSeq
<1>2. PICK ahead : ahead = read \o coming
    OBVIOUS
<1>3. ahead \in Seq(Symbols) /\ Follows(ahead, read, coming)
    BY <1>2, TwoJoined
<1>4. F!BOM \in Seq(Symbols) /\ Len(F!BOM) = 3 /\ \A n \in 1 .. 3 : F!BOM[n] = Mark
    BY TheMark
<1>5. CASE ahead = text
    <2>1. ~F!IsPrefix(F!BOM, read)
        <3> SUFFICES ASSUME F!IsPrefix(F!BOM, read) PROVE FALSE
            OBVIOUS
        <3>1. Len(read) >= 3 /\ SubSeq(F!BOM, 1, 3) = SubSeq(read, 1, 3)
            BY <1>1, <1>4 DEF F!IsPrefix
        <3>2. 1 \in Int /\ 3 \in Int /\ \A i \in 1 .. 3 : read[i] \in Symbols
            BY <1>1, <3>1
        <3>3. \A i \in 1 .. 3 - 1 + 1 : SubSeq(read, 1, 3)[i] = read[1 + i - 1]
            BY <3>2, SubSeqProperties
        <3>4. SubSeq(F!BOM, 1, 3) = F!BOM
            BY <1>4, SubSeqFull
        <3>5. read[1] = Mark
            <4>1. 1 \in 1 .. 3 - 1 + 1 /\ 1 + 1 - 1 = 1 /\ 1 \in 1 .. 3
                OBVIOUS
            <4>2. SubSeq(read, 1, 3)[1] = read[1]
                BY <3>3, <4>1
            <4> QED
                BY <1>4, <3>1, <3>4, <4>1, <4>2
        <3>6. text[1] = read[1] /\ 1 \in 1 .. Len(text)
            BY <1>1, <1>3, <1>5, <3>1 DEF Follows
        <3>7. text[1] \in PlainSymbols
            BY <3>6, ElementOfSeq
        <3> QED
            BY <3>5, <3>6, <3>7, SymbolsDiffer
    <2>2. buf = read
        BY <2>1
    <2> QED
        BY <1>2, <1>5, <2>2 DEF IsAhead
<1>6. CASE fresh /\ ahead = F!BOM \o text
    <2>1. text \in Seq(Symbols)
        <3>1. PlainSymbols \subseteq Symbols
            BY DEF Symbols
        <3> QED
            BY <3>1, SeqMonotonic
    <2>2. Follows(ahead, F!BOM, text)
        BY <1>4, <1>6, <2>1, TwoJoined
    <2>3. /\ Len(ahead) = 3 + Len(text) /\ Len(ahead) = Len(read) + Len(coming)
          /\ \A n \in 1 .. 3 : ahead[n] = Mark
          /\ \A n \in 1 .. Len(text) : ahead[3 + n] = text[n]
          /\ \A n \in 1 .. Len(read) : ahead[n] = read[n]
          /\ \A n \in 1 .. Len(coming) : ahead[Len(read) + n] = coming[n]
        BY <1>3, <1>4, <2>2 DEF Follows
    <2>4. CASE Len(read) >= 3
        <3>1. Looked(read, last)
            BY <1>4, <2>4 DEF Looked
        <3>2. /\ SubSeq(read, 1, 3) \in Seq(Symbols) /\ Len(SubSeq(read, 1, 3)) = 3
              /\ \A i \in 1 .. 3 : SubSeq(read, 1, 3)[i] = read[i]
            <4>1. 1 \in Int /\ 3 \in Int /\ \A i \in 1 .. 3 : read[i] \in Symbols
                BY <1>1, <2>4
            <4>2. /\ SubSeq(read, 1, 3) \in Seq(Symbols)
                  /\ Len(SubSeq(read, 1, 3)) = IF 1 <= 3 THEN 3 - 1 + 1 ELSE 0
                  /\ \A i \in 1 .. 3 - 1 + 1 : SubSeq(read, 1, 3)[i] = read[1 + i - 1]
                BY <4>1, SubSeqProperties
            <4>3. \A i \in 1 .. 3 : i \in 1 .. 3 - 1 + 1 /\ 1 + i - 1 = i
                OBVIOUS
            <4>4. (IF 1 <= 3 THEN 3 - 1 + 1 ELSE 0) = 3
                OBVIOUS
            <4> QED
                BY <4>2, <4>3, <4>4
        <3>3. SubSeq(read, 1, 3) = F!BOM
            <4>1. PICK taken : taken = SubSeq(read, 1, 3)
                OBVIOUS
            <4>2. \A i \in 1 .. 3 : taken[i] = F!BOM[i]
                <5> SUFFICES ASSUME NEW i \in 1 .. 3 PROVE taken[i] = F!BOM[i]
                    OBVIOUS
                <5>1. i \in 1 .. Len(read)
                    BY <1>1, <2>4
                <5> QED
                    BY <1>4, <2>3, <3>2, <4>1, <5>1
            <4>3. taken \in Seq(Symbols) /\ Len(taken) = Len(F!BOM)
                BY <1>4, <3>2, <4>1
            <4>4. taken = F!BOM
                BY <1>4, <3>2, <4>1, <4>2, <4>3, SeqEqual
            <4> QED
                BY <4>1, <4>4
        <3>4. F!IsPrefix(F!BOM, read)
            <4>1. SubSeq(F!BOM, 1, 3) = F!BOM
                BY <1>4, SubSeqFull
            <4> QED
                BY <1>4, <2>4, <3>3, <4>1 DEF F!IsPrefix
        <3>5. buf = SubSeq(read, 4, Len(read))
            <4>1. Len(F!BOM) + 1 = 4
                BY <1>4
            <4> QED
                BY <1>6, <3>1, <3>4, <4>1
        <3>6. /\ buf \in Seq(Symbols) /\ Len(buf) = Len(read) - 3
              /\ \A i \in 1 .. Len(read) - 3 : buf[i] = read[i + 3]
            <4>1. 4 \in Int /\ Len(read) \in Int /\ \A i \in 4 .. Len(read) : read[i] \in Symbols
                BY <1>1
            <4>2. /\ buf \in Seq(Symbols) /\ Len(buf) = IF 4 <= Len(read) THEN Len(read) - 4 + 1 ELSE 0
                  /\ \A i \in 1 .. Len(read) - 4 + 1 : buf[i] = read[4 + i - 1]
                BY <3>5, <4>1, SubSeqProperties
            <4>3. Len(read) \in Nat
                BY <1>1
            <4>4. (IF 4 <= Len(read) THEN Len(read) - 4 + 1 ELSE 0) = Len(read) - 3
                <5>1. \A m \in Nat : m >= 3 => (IF 4 <= m THEN m - 4 + 1 ELSE 0) = m - 3
                    <6> SUFFICES ASSUME NEW m \in Nat, m >= 3 PROVE (IF 4 <= m THEN m - 4 + 1 ELSE 0) = m - 3
                        OBVIOUS
                    <6>1. CASE 4 <= m
                        BY ONLY m \in Nat, <6>1
                    <6>2. CASE ~(4 <= m)
                        <7>1. m = 3
                            BY ONLY m \in Nat, m >= 3, <6>2
                        <7> QED
                            BY ONLY <7>1
                    <6> QED
                        BY <6>1, <6>2
                <5> QED
                    BY <2>4, <4>3, <5>1
            <4>5. \A i \in 1 .. Len(read) - 3 : i \in 1 .. Len(read) - 4 + 1 /\ 4 + i - 1 = i + 3
                BY ONLY <4>3
            <4> QED
                BY <4>2, <4>4, <4>5
        <3>7. PICK joined : joined = buf \o coming
            OBVIOUS
        <3>8. joined \in Seq(Symbols) /\ Follows(joined, buf, coming)
            BY <3>6, <3>7, TwoJoined
        <3>9. Len(joined) = Len(text)
            <4>1. Len(joined) = Len(buf) + Len(coming)
                BY <3>8 DEF Follows
            <4>2. Len(buf) = Len(read) - 3 /\ 3 + Len(text) = Len(read) + Len(coming)
                BY <2>3, <3>6
            <4>3. Len(read) \in Nat /\ Len(coming) \in Nat /\ Len(text) \in Nat
                BY <1>1
            <4> QED
                BY ONLY <4>1, <4>2, <4>3
        <3>10. ASSUME NEW i \in 1 .. Len(text) PROVE joined[i] = text[i]
            <4>5. /\ Len(read) \in Nat /\ Len(coming) \in Nat /\ Len(text) \in Nat /\ Len(buf) = Len(read) - 3
                  /\ Len(read) >= 3 /\ 3 + Len(text) = Len(read) + Len(coming)
                BY <1>1, <2>3, <2>4, <3>6
            <4>1. ahead[3 + i] = text[i]
                BY <2>3
            <4>2. CASE i <= Len(buf)
                <5>1. i \in 1 .. Len(read) - 3 /\ i + 3 \in 1 .. Len(read) /\ i + 3 = 3 + i /\ i \in 1 .. Len(buf)
                    <6>1. i \in 1 .. Len(text)
                        OBVIOUS
                    <6> QED
                        BY ONLY <4>2, <4>5, <6>1
                <5>2. joined[i] = buf[i]
                    BY <3>8, <5>1 DEF Follows
                <5>3. buf[i] = read[i + 3] /\ read[i + 3] = ahead[i + 3]
                    BY <2>3, <3>6, <5>1
                <5> QED
                    BY <4>1, <5>1, <5>2, <5>3
            <4>3. CASE i > Len(buf)
                <5>1. PICK n : n = i - Len(buf)
                    OBVIOUS
                <5>2. n \in 1 .. Len(coming) /\ i = Len(buf) + n /\ 3 + i = Len(read) + n
                    <6>1. i \in 1 .. Len(text)
                        OBVIOUS
                    <6> QED
                        BY ONLY <4>3, <4>5, <5>1, <6>1
                <5>3. joined[i] = coming[n]
                    BY <3>8, <5>2 DEF Follows
                <5>4. ahead[3 + i] = coming[n]
                    BY <2>3, <5>2
                <5> QED
                    BY <4>1, <5>3, <5>4
            <4>4. i <= Len(buf) \/ i > Len(buf)
                <5>1. i \in 1 .. Len(text)
                    OBVIOUS
                <5> QED
                    BY ONLY <4>5, <5>1
            <4> QED
                BY <4>2, <4>3, <4>4
        <3>11. joined = text
            BY <2>1, <3>8, <3>9, <3>10, SeqEqual
        <3> QED
            BY <3>6, <3>7, <3>11 DEF IsAhead
    <2>5. CASE Len(read) < 3
        <3>1. \A n \in 1 .. Len(read) : read[n] = Mark
            BY <1>1, <2>3, <2>5
        <3>2. ~(\E n \in DOMAIN read : F!IsLine(read[n]))
            BY <1>1, <3>1, SymbolsDiffer
        <3>3. ~last
            <4> SUFFICES ASSUME last PROVE FALSE
                OBVIOUS
            <4>1. Len(coming) = 0
                <5>1. coming = <<>>
                    OBVIOUS
                <5> QED
                    BY <5>1, EmptySeq
            <4>2. Len(read) \in Nat /\ Len(text) \in Nat /\ 3 + Len(text) = Len(read) + Len(coming)
                BY <1>1, <2>3
            <4> QED
                BY ONLY <2>5, <4>1, <4>2
        <3>4. ~Looked(read, last)
            <4>1. ~(Len(read) >= Len(F!BOM))
                BY <1>1, <1>4, <2>5
            <4> QED
                BY <3>2, <3>3, <4>1 DEF Looked
        <3>5. buf = read /\ still
            BY <1>6, <3>4
        <3> QED
            BY <1>2, <1>6, <2>5, <3>5 DEF IsAhead
    <2> QED
        BY <1>1, <2>4, <2>5
<1> QED
    BY <1>2, <1>5, <1>6

(* What the reader's variables and the bytes on their way stand for. *)

LEMMA TwoTaken ==
    ASSUME NEW T, NEW front \in Seq(T), NEW back \in Seq(T), NEW all, all = front \o back
    PROVE  SubSeq(all, 1, Len(front)) = front /\ SubSeq(all, Len(front) + 1, Len(all)) = back
<1>1. /\ all \in Seq(T) /\ Follows(all, front, back)
      /\ \A i \in 1 .. Len(all) : all[i] \in T
    <2>1. all \in Seq(T) /\ Follows(all, front, back)
        BY TwoJoined
    <2> QED
        BY <2>1, ElementOfSeq
<1>2. PICK m, n : m = Len(front) /\ n = Len(back)
    OBVIOUS
<1>3. /\ m \in Nat /\ n \in Nat /\ Len(all) = m + n
      /\ \A i \in 1 .. m : all[i] = front[i]
      /\ \A i \in 1 .. n : all[m + i] = back[i]
      /\ \A i \in 1 .. m + n : all[i] \in T
    BY <1>1, <1>2 DEF Follows
<1>4. SubSeq(all, 1, m) = front
    <2>1. 1 \in Int /\ m \in Int /\ \A i \in 1 .. m : all[i] \in T
        BY <1>3
    <2>2. /\ SubSeq(all, 1, m) \in Seq(T) /\ Len(SubSeq(all, 1, m)) = (IF 1 <= m THEN m - 1 + 1 ELSE 0)
          /\ \A i \in 1 .. m - 1 + 1 : SubSeq(all, 1, m)[i] = all[1 + i - 1]
        BY ONLY <2>1, SubSeqProperties
    <2>3. m \in Nat
        BY <1>3
    <2>4. (IF 1 <= m THEN m - 1 + 1 ELSE 0) = m /\ \A i \in 1 .. m : i \in 1 .. m - 1 + 1 /\ 1 + i - 1 = i
        BY ONLY <2>3
    <2>5. PICK taken : taken = SubSeq(all, 1, m)
        OBVIOUS
    <2>6. taken \in Seq(T) /\ Len(taken) = Len(front)
        BY <1>2, <2>2, <2>4, <2>5
    <2>7. \A i \in 1 .. Len(taken) : taken[i] = front[i]
        BY <1>2, <1>3, <2>2, <2>4, <2>5, <2>6
    <2> QED
        BY <2>5, <2>6, <2>7, SeqEqual
<1>5. SubSeq(all, m + 1, m + n) = back
    <2>1. m + 1 \in Int /\ m + n \in Int /\ \A i \in m + 1 .. m + n : all[i] \in T
        BY <1>3
    <2>2. PICK taken : taken = SubSeq(all, m + 1, m + n)
        OBVIOUS
    <2>3. /\ taken \in Seq(T) /\ Len(taken) = (IF m + 1 <= m + n THEN (m + n) - (m + 1) + 1 ELSE 0)
          /\ \A i \in 1 .. (m + n) - (m + 1) + 1 : taken[i] = all[(m + 1) + i - 1]
        BY ONLY <2>1, <2>2, SubSeqProperties
    <2>4. m \in Nat /\ n \in Nat
        BY <1>3
    <2>5. /\ (IF m + 1 <= m + n THEN (m + n) - (m + 1) + 1 ELSE 0) = n
          /\ \A i \in 1 .. n : i \in 1 .. (m + n) - (m + 1) + 1 /\ (m + 1) + i - 1 = m + i
        BY ONLY <2>4
    <2>6. Len(taken) = Len(back)
        BY <1>2, <2>3, <2>5
    <2>7. \A i \in 1 .. Len(taken) : taken[i] = back[i]
        <3> SUFFICES ASSUME NEW i \in 1 .. n PROVE taken[i] = back[i]
            BY <1>2, <2>6
        <3> QED
            BY <1>3, <2>3, <2>5
    <2> QED
        BY <2>2, <2>3, <2>6, <2>7, SeqEqual
<1> QED
    BY <1>2, <1>3, <1>4, <1>5

LEMMA MarkIsUnified == F!Unified(F!BOM) = F!BOM
<1> DEFINE T == {F!LF, Mark}
<1>1. F!LF \in T /\ Mark \in T /\ <<>> \in Seq(T)
    BY EmptySeq
<1>2. Mark # F!LF /\ Mark # F!CR
    BY SymbolsDiffer DEF PlainSymbols
<1>3. PICK one : one = Append(<<>>, Mark)
    OBVIOUS
<1>4. PICK two : two = Append(one, Mark)
    OBVIOUS
<1>5. PICK three : three = Append(two, Mark)
    OBVIOUS
<1> HIDE DEF T
<1>6. one \in Seq(T) /\ Len(one) = 1 /\ one[1] = Mark
    BY <1>1, <1>3, AppendProperties, EmptySeq
<1>7. two \in Seq(T) /\ Len(two) = 2 /\ two[1] = Mark /\ two[2] = Mark
    <2>1. /\ two \in Seq(T) /\ Len(two) = Len(one) + 1 /\ two[Len(one) + 1] = Mark
          /\ \A i \in 1 .. Len(one) : two[i] = one[i]
        <3>1. one \in Seq(T) /\ Mark \in T
            BY <1>1, <1>6
        <3> QED
            BY ONLY <1>4, <3>1, AppendProperties
    <2> QED
        BY <1>6, <2>1
<1>8. three \in Seq(T) /\ Len(three) = 3 /\ \A i \in 1 .. 3 : three[i] = Mark
    <2>1. /\ three \in Seq(T) /\ Len(three) = Len(two) + 1 /\ three[Len(two) + 1] = Mark
          /\ \A i \in 1 .. Len(two) : three[i] = two[i]
        <3>1. two \in Seq(T) /\ Mark \in T
            BY <1>1, <1>7
        <3> QED
            BY ONLY <1>5, <3>1, AppendProperties
    <2> QED
        BY <1>7, <2>1
<1>9. F!Unified(one) = one
    <2>1. F!Unified(one) = Append(F!Unified(<<>>), Mark)
        BY <1>1, <1>2, <1>3, UnifiedGrows
    <2> QED
        BY <1>3, <2>1, UnifiedNothing
<1>10. F!Unified(two) = two
    <2>1. F!Unified(two) = Append(F!Unified(one), Mark)
        BY <1>1, <1>2, <1>4, <1>6, UnifiedGrows
    <2> QED
        BY <1>4, <1>9, <2>1
<1>11. F!Unified(three) = three
    <2>1. F!Unified(three) = Append(F!Unified(two), Mark)
        BY <1>1, <1>2, <1>5, <1>7, UnifiedGrows
    <2> QED
        BY <1>5, <1>10, <2>1
<1>12. three = F!BOM
    <2>1. F!BOM \in Seq(T)
        <3>1. {Mark} \subseteq T
            BY <1>1
        <3> QED
            BY <3>1, TheMark, SeqMonotonic
    <2>2. Len(three) = Len(F!BOM) /\ \A i \in 1 .. Len(three) : three[i] = F!BOM[i]
        BY <1>8, TheMark
    <2> QED
        BY <1>8, <2>1, <2>2, SeqEqual
<1> QED
    BY <1>11, <1>12

FramesHold(events, coming, buf, back, fresh, done, id, got) ==
    /\ events \in Seq(Events) /\ coming \in Seq(Symbols) /\ buf \in Seq(Symbols) /\ back \in Seq(Symbols)
    /\ fresh \in BOOLEAN /\ done \in BOOLEAN
    /\ done => coming = <<>> /\ back = <<>> /\ ~fresh
    /\ \E text : Followed(events, id, got, text) /\ IsAhead(buf, F!Unified(back \o coming), fresh, text)

LEMMA FollowedText ==
    ASSUME NEW events, NEW id, NEW got, NEW text, Followed(events, id, got, text)
    PROVE  text \in Seq(PlainSymbols) /\ text \in Seq(Symbols)
<1>1. text \in Seq(PlainSymbols)
    BY DEF Followed, Reading
<1>2. PlainSymbols \subseteq Symbols
    BY DEF Symbols
<1> QED
    BY <1>1, <1>2, SeqMonotonic

LEMMA FramesBegin ==
    ASSUME NEW coming \in {<<>>, F!BOM}
    PROVE  FramesHold(<<>>, coming, <<>>, <<>>, TRUE, FALSE, None, <<>>)
<1>1. /\ <<>> \in Seq(Events) /\ <<>> \in Seq(Symbols) /\ <<>> \in Seq(PlainSymbols) /\ coming \in Seq(Symbols)
      /\ Len(<<>>) = 0
    BY EmptySeq, TheMark
<1>2. F!Unified(<<>> \o coming) = coming /\ <<>> \o coming = coming
    BY <1>1, ConcatEmptySeq, UnifiedNothing, MarkIsUnified
<1>3. Followed(<<>>, None, <<>>, <<>>)
    <2>1. LinedAfter(<<>>, 0) = {}
        BY <1>1 DEF LinedAfter
    <2>2. Remains(<<>>, <<>>, <<>>, 0)
        BY <1>1, <2>1 DEF Remains
    <2>3. LastId(<<>>, 0) = None
        BY DEF LastId, NamedUpTo
    <2>4. ToldUpTo(<<>>, 0) = <<>>
        <3>1. PICK none, all : none = <<>> /\ all = {ToldOf(none, m) : m \in 1 .. Len(none)}
            OBVIOUS
        <3>2. none \in Seq(Events) /\ 0 \in 0 .. Len(none) /\ Len(none) = 0
            BY <1>1, <3>1
        <3>3. ToldUpTo(none, 0) \in Seq(all)
            BY <3>1, <3>2, ToldIsASequence
        <3>4. all = {}
            BY <3>1, <3>2
        <3>5. PICK told : told = ToldUpTo(none, 0)
            OBVIOUS
        <3>6. Len(told) \in Nat /\ \A i \in 1 .. Len(told) : told[i] \in {}
            BY <3>3, <3>4, <3>5, LenProperties, ElementOfSeq
        <3>7. Len(told) = 0
            <4> SUFFICES ASSUME Len(told) # 0 PROVE FALSE
                OBVIOUS
            <4>1. 1 \in 1 .. Len(told)
                BY <3>6
            <4> QED
                BY <3>6, <4>1
        <3>8. told = <<>>
            BY <3>3, <3>5, <3>7, EmptySeq
        <3> QED
            BY <3>1, <3>5, <3>8
    <2>5. 0 \in 0 .. Len(<<>>)
        BY <1>1
    <2>6. Reading(<<>>, None, <<>>, <<>>, 0, <<>>)
        BY <1>1, <2>2, <2>3, <2>4, <2>5 DEF Reading
    <2> QED
        BY <2>6 DEF Followed
<1>4. PICK text : text = <<>>
    OBVIOUS
<1>5. IsAhead(<<>>, coming, TRUE, text)
    <2>1. F!BOM \o <<>> = F!BOM
        BY TheMark, ConcatEmptySeq
    <2> QED
        BY <1>1, <1>2, <1>4, <2>1 DEF IsAhead
<1>6. \E ahead : Followed(<<>>, None, <<>>, ahead) /\ IsAhead(<<>>, F!Unified(<<>> \o coming), TRUE, ahead)
    BY <1>2, <1>3, <1>4, <1>5
<1> QED
    BY <1>1, <1>6 DEF FramesHold

LEMMA WritingHolds ==
    ASSUME NEW events, NEW coming, NEW buf, NEW back, NEW fresh, NEW id, NEW got,
           FramesHold(events, coming, buf, back, fresh, FALSE, id, got),
           NEW e \in Events, NEW ending \in F!Endings,
           NEW more, more = Append(events, e), NEW longer, longer = coming \o F!to_bytes(e, ending)
    PROVE  FramesHold(more, longer, buf, back, fresh, FALSE, id, got)
<1>1. /\ events \in Seq(Events) /\ coming \in Seq(Symbols) /\ buf \in Seq(Symbols) /\ back \in Seq(Symbols)
      /\ fresh \in BOOLEAN
    BY DEF FramesHold
<1>2. PICK text : Followed(events, id, got, text) /\ IsAhead(buf, F!Unified(back \o coming), fresh, text)
    BY DEF FramesHold
<1>3. PICK written, all : written = F!to_bytes(e, ending) /\ all = F!EventLines(e)
    OBVIOUS
<1>4. PICK block : block = F!Unified(written)
    OBVIOUS
<1>5. /\ written \in Seq(PlainSymbols) /\ block \in Seq(PlainSymbols) /\ IsBlock(block, all)
      /\ BeginsWithLF(written) => all = <<>> /\ written = <<F!LF>>
    BY <1>3, <1>4, WrittenIsBlock
<1>6. PlainSymbols \subseteq Symbols /\ F!LF \in Symbols
    BY DEF Symbols, PlainSymbols
<1>7. written \in Seq(Symbols) /\ block \in Seq(Symbols)
    BY <1>5, <1>6, SeqMonotonic
<1>8. text \in Seq(PlainSymbols) /\ text \in Seq(Symbols)
    BY <1>2, FollowedText
<1>9. PICK before, united : before = back \o coming /\ united = F!Unified(before)
    OBVIOUS
<1>10. before \in Seq(Symbols) /\ united \in Seq(Symbols)
    <2>1. before \in Seq(Symbols)
        BY <1>1, <1>9, ConcatProperties
    <2> QED
        BY <1>6, <1>9, <2>1, UnifiedGrows
<1>11. \A x, y, z \in Seq(Symbols) : (x \o y) \o z = x \o (y \o z)
    BY ONLY ConcatAssociative
<1>12. back \o longer = before \o written
    <2>1. back \in Seq(Symbols) /\ coming \in Seq(Symbols) /\ written \in Seq(Symbols)
        BY <1>1, <1>7
    <2>2. (back \o coming) \o written = back \o (coming \o written)
        BY ONLY <1>11, <2>1, Zenon
    <2> QED
        BY <1>3, <1>9, <2>2
<1>13. more \in Seq(Events) /\ longer \in Seq(Symbols)
    BY <1>1, <1>3, <1>7, AppendProperties, ConcatProperties
<1>14. \E ahead : Followed(more, id, got, ahead) /\ IsAhead(buf, F!Unified(back \o longer), fresh, ahead)
    <2>1. CASE EndsWithCR(before) /\ BeginsWithLF(written)
        <3>1. before \o written = Append(before, F!LF)
            BY <1>5, <1>6, <1>10, <2>1, AppendIsConcat
        <3>2. F!Unified(Append(before, F!LF)) = united
            BY <1>6, <1>9, <1>10, <2>1, EndsOfLinesDiffer, UnifiedGrows
        <3>3. Followed(more, id, got, text)
            <4>1. F!EventLines(e) = <<>>
                BY <1>3, <1>5, <2>1
            <4> QED
                BY <1>1, <1>2, <4>1, ReadingUnwritten
        <3> QED
            BY <1>2, <1>9, <1>12, <3>1, <3>2, <3>3
    <2>2. CASE ~(EndsWithCR(before) /\ BeginsWithLF(written))
        <3>1. F!Unified(before \o written) = united \o block
            BY <1>4, <1>6, <1>7, <1>9, <1>10, <2>2, UnifiedJoins
        <3>2. PICK ahead : ahead = text \o block
            OBVIOUS
        <3>3. Followed(more, id, got, ahead)
            BY <1>1, <1>2, <1>3, <1>5, <3>2, ReadingWritten
        <3>4. buf \o (united \o block) = (buf \o united) \o block
            <4>1. buf \in Seq(Symbols) /\ united \in Seq(Symbols) /\ block \in Seq(Symbols)
                BY <1>1, <1>7, <1>10
            <4> QED
                BY ONLY <1>11, <4>1, Zenon
        <3>5. F!BOM \o ahead = (F!BOM \o text) \o block
            <4>1. F!BOM \in Seq(Symbols) /\ text \in Seq(Symbols) /\ block \in Seq(Symbols)
                BY <1>7, <1>8, TheMark
            <4>2. (F!BOM \o text) \o block = F!BOM \o (text \o block)
                BY ONLY <1>11, <4>1, Zenon
            <4> QED
                BY <3>2, <4>2
        <3>6. IsAhead(buf, united \o block, fresh, ahead)
            <4>1. IsAhead(buf, united, fresh, text)
                BY <1>2, <1>9
            <4>2. CASE buf \o united = text
                BY <3>2, <3>4, <4>2 DEF IsAhead
            <4>3. CASE fresh /\ Len(buf) < 3 /\ buf \o united = F!BOM \o text
                BY <3>4, <3>5, <4>3 DEF IsAhead
            <4> QED
                BY <4>1, <4>2, <4>3 DEF IsAhead
        <3> QED
            BY <1>12, <3>1, <3>3, <3>6
    <2> QED
        BY <2>1, <2>2
<1> QED
    BY <1>1, <1>13, <1>14 DEF FramesHold

\* What F!Read does with a chunk.
ReadSo(buf, back, fresh, arrived, last, kept, read, left, still) ==
    /\ kept = IF last THEN <<>> ELSE F!Held(back \o arrived)
    /\ read = buf \o F!Unified(SubSeq(back \o arrived, 1, Len(back \o arrived) - Len(kept)))
    /\ left = IF fresh /\ Looked(read, last) /\ F!IsPrefix(F!BOM, read)
              THEN SubSeq(read, Len(F!BOM) + 1, Len(read)) ELSE read
    /\ still = (fresh /\ ~Looked(read, last))

LEMMA ReadingHolds ==
    ASSUME NEW events, NEW coming, NEW buf, NEW back, NEW fresh, NEW id, NEW got,
           FramesHold(events, coming, buf, back, fresh, FALSE, id, got),
           NEW arrived \in Seq(Symbols), NEW rest \in Seq(Symbols), coming = arrived \o rest,
           NEW last \in BOOLEAN, last => rest = <<>>,
           NEW kept, NEW read, NEW left, NEW still, ReadSo(buf, back, fresh, arrived, last, kept, read, left, still)
    PROVE  FramesHold(events, rest, left, kept, still, last, id, got)
<1>14. PICK chunk : chunk = back \o arrived
    OBVIOUS
<1>15. /\ kept = IF last THEN <<>> ELSE F!Held(chunk)
       /\ read = buf \o F!Unified(SubSeq(chunk, 1, Len(chunk) - Len(kept)))
       /\ left = IF fresh /\ Looked(read, last) /\ F!IsPrefix(F!BOM, read)
                 THEN SubSeq(read, Len(F!BOM) + 1, Len(read)) ELSE read
       /\ still = (fresh /\ ~Looked(read, last))
    BY <1>14 DEF ReadSo
<1>1. /\ events \in Seq(Events) /\ coming \in Seq(Symbols) /\ buf \in Seq(Symbols) /\ back \in Seq(Symbols)
      /\ fresh \in BOOLEAN
    BY DEF FramesHold
<1>2. PICK text : Followed(events, id, got, text) /\ IsAhead(buf, F!Unified(back \o coming), fresh, text)
    BY DEF FramesHold
<1>3. text \in Seq(PlainSymbols)
    BY <1>2, FollowedText
<1>4. PICK front : front = SubSeq(chunk, 1, Len(chunk) - Len(kept))
    OBVIOUS
<1>5. PICK later : later = F!Unified(kept \o rest)
    OBVIOUS
<1>6. kept = F!Held(chunk) \/ (kept = <<>> /\ rest = <<>>)
    BY <1>15
<1>7. /\ kept \in Seq(Symbols) /\ read \in Seq(Symbols) /\ later \in Seq(Symbols)
      /\ read \o later = buf \o F!Unified(back \o (arrived \o rest))
    <2>1. /\ back \in Seq(Symbols) /\ arrived \in Seq(Symbols) /\ rest \in Seq(Symbols) /\ buf \in Seq(Symbols)
          /\ Parted(back, arrived, rest, buf, kept, front, read)
        BY <1>1, <1>4, <1>6, <1>14, <1>15 DEF Parted
    <2>2. Together(back, arrived, rest, buf, kept, read)
        BY ONLY <2>1, ReadTogether
    <2> QED
        BY <1>5, <2>2 DEF Together
<1>8. last => later = <<>> /\ kept = <<>>
    <2> SUFFICES ASSUME last PROVE later = <<>> /\ kept = <<>>
        OBVIOUS
    <2>1. kept = <<>> /\ rest = <<>>
        BY <1>15
    <2>2. kept \o rest = <<>>
        BY <2>1, ConcatEmptySeq
    <2> QED
        BY <1>5, <2>1, <2>2, UnifiedNothing
<1>9. read \o later = text \/ (fresh /\ read \o later = F!BOM \o text)
    <2>1. read \o later = buf \o F!Unified(back \o coming)
        BY <1>7
    <2> QED
        BY <1>2, <2>1 DEF IsAhead
<1>10. left \in Seq(Symbols) /\ IsAhead(left, later, still, text)
    <2>1. /\ read \in Seq(Symbols) /\ later \in Seq(Symbols) /\ text \in Seq(PlainSymbols)
          /\ last \in BOOLEAN /\ (last => later = <<>>) /\ fresh \in BOOLEAN
          /\ read \o later = text \/ (fresh /\ read \o later = F!BOM \o text)
          /\ left = IF fresh /\ Looked(read, last) /\ F!IsPrefix(F!BOM, read)
                    THEN SubSeq(read, Len(F!BOM) + 1, Len(read)) ELSE read
          /\ still = (fresh /\ ~Looked(read, last))
        BY <1>1, <1>3, <1>7, <1>8, <1>9, <1>15
    <2> QED
        BY ONLY <2>1, MarkIsRemoved
<1>11. last => ~still
    BY <1>15 DEF Looked
<1>12. \E ahead : Followed(events, id, got, ahead) /\ IsAhead(left, F!Unified(kept \o rest), still, ahead)
    BY <1>2, <1>5, <1>10
<1>13. still \in BOOLEAN
    BY <1>15
<1> QED
    BY <1>1, <1>7, <1>8, <1>10, <1>11, <1>12, <1>13 DEF FramesHold

LEMMA YieldingHolds ==
    ASSUME NEW events, NEW coming, NEW buf, NEW back, NEW fresh, NEW done, NEW id, NEW got,
           FramesHold(events, coming, buf, back, fresh, done, id, got),
           NEW c \in F!Cuts(buf), \A other \in F!Cuts(buf) : c <= other,
           NEW event, event = F!Decoded(SubSeq(buf, 1, c - 1), id),
           NEW left, left = SubSeq(buf, c + 2, Len(buf)),
           NEW told, told = IF event.data = None THEN got ELSE Append(got, event)
    PROVE  FramesHold(events, coming, left, back, fresh, done, event.id, told)
<1>1. /\ events \in Seq(Events) /\ coming \in Seq(Symbols) /\ buf \in Seq(Symbols) /\ back \in Seq(Symbols)
      /\ fresh \in BOOLEAN /\ done \in BOOLEAN
      /\ done => coming = <<>> /\ back = <<>> /\ ~fresh
    BY DEF FramesHold
<1>2. PICK text : Followed(events, id, got, text) /\ IsAhead(buf, F!Unified(back \o coming), fresh, text)
    BY DEF FramesHold
<1>3. text \in Seq(Symbols)
    BY <1>2, FollowedText
<1>4. PICK later : later = F!Unified(back \o coming)
    OBVIOUS
<1>5. later \in Seq(Symbols)
    <2>1. F!LF \in Symbols /\ back \o coming \in Seq(Symbols)
        BY <1>1, ConcatProperties DEF Symbols, PlainSymbols
    <2> QED
        BY <1>4, <2>1, UnifiedGrows
<1>6. PICK ahead : ahead = buf \o later
    OBVIOUS
<1>7. ahead \in Seq(Symbols) /\ Follows(ahead, buf, later)
    BY <1>1, <1>5, <1>6, TwoJoined
<1>8. c \in Nat /\ c >= 1 /\ c + 1 <= Len(buf) /\ buf[c] = F!LF /\ buf[c + 1] = F!LF /\ Len(buf) \in Nat
    <2>1. Len(buf) \in Nat
        BY <1>1, LenProperties
    <2> QED
        BY <2>1 DEF F!Cuts
<1>9. ahead = text
    <2>1. ~(Len(buf) < 3 /\ ahead = F!BOM \o text)
        <3> SUFFICES ASSUME Len(buf) < 3, ahead = F!BOM \o text PROVE FALSE
            OBVIOUS
        <3>1. c = 1 /\ 1 \in 1 .. Len(buf) /\ 1 \in 1 .. 3
            BY <1>8
        <3>2. Follows(ahead, F!BOM, text)
            BY <1>3, TheMark, TwoJoined
        <3>3. ahead[1] = Mark
            BY <3>1, <3>2, TheMark DEF Follows
        <3>4. ahead[1] = F!LF
            BY <1>7, <1>8, <3>1 DEF Follows
        <3> QED
            BY <3>3, <3>4, SymbolsDiffer DEF PlainSymbols
    <2> QED
        BY <1>2, <1>4, <1>6, <2>1 DEF IsAhead
<1>10. c \in F!Cuts(text) /\ \A other \in F!Cuts(text) : c <= other
    <2>1. /\ Len(text) = Len(buf) + Len(later) /\ Len(later) \in Nat
          /\ \A n \in 1 .. Len(buf) : text[n] = buf[n]
        BY <1>7, <1>9 DEF Follows
    <2>2. c \in F!Cuts(text)
        <3>1. c \in 1 .. Len(buf) /\ c + 1 \in 1 .. Len(buf) /\ c \in 1 .. Len(text) - 1
            BY <1>8, <2>1
        <3> QED
            BY <1>8, <2>1, <3>1 DEF F!Cuts
    <2>3. ASSUME NEW other \in F!Cuts(text) PROVE c <= other
        <3>1. other \in 1 .. Len(text) - 1 /\ text[other] = F!LF /\ text[other + 1] = F!LF
            BY DEF F!Cuts
        <3> SUFFICES ASSUME ~(c <= other) PROVE FALSE
            OBVIOUS
        <3>2. other \in 1 .. Len(buf) /\ other + 1 \in 1 .. Len(buf) /\ other \in 1 .. Len(buf) - 1
            BY <1>8, <2>1, <3>1
        <3>3. other \in F!Cuts(buf)
            BY <2>1, <3>1, <3>2 DEF F!Cuts
        <3> QED
            BY <3>3
    <2> QED
        BY <2>2, <2>3
<1>11. /\ SubSeq(text, 1, c - 1) = SubSeq(buf, 1, c - 1)
       /\ SubSeq(text, c + 2, Len(text)) = left \o later
       /\ left \in Seq(Symbols) /\ Len(left) <= Len(buf)
    <2>1. \A i \in 1 .. Len(buf) : buf[i] \in Symbols
        BY <1>1, ElementOfSeq
    <2>2. PICK size : size = Len(buf)
        OBVIOUS
    <2>3. /\ size \in Nat /\ 1 \in 1 .. size + 1 /\ c - 1 \in 1 - 1 .. size /\ size \in c - 1 .. size
          /\ (c - 1) + 1 = c /\ c + 1 \in 1 - 1 .. size /\ size \in c + 1 .. size /\ (c + 1) + 1 = c + 2
          /\ c \in Int /\ c - 1 \in Int /\ c + 1 \in Int /\ c + 2 \in Int /\ 1 \in Int /\ size \in Int
        BY <1>8, <2>2
    <2>4. PICK lead, then, piece : lead = SubSeq(buf, 1, c - 1) /\ then = SubSeq(buf, c, size) /\ piece = SubSeq(buf, 1, c + 1)
        OBVIOUS
    <2>5. SubSeq(buf, 1, size) = buf
        BY <1>1, <2>2, SubSeqFull
    <2>6. lead \in Seq(Symbols) /\ Len(lead) = c - 1
        <3>1. \A i \in 1 .. c - 1 : buf[i] \in Symbols
            BY <2>1, <2>2, <2>3
        <3>2. lead \in Seq(Symbols) /\ Len(lead) = (IF 1 <= c - 1 THEN (c - 1) - 1 + 1 ELSE 0)
            BY <2>3, <2>4, <3>1, SubSeqProperties
        <3> QED
            BY <1>8, <3>2
    <2>7. then \in Seq(Symbols)
        <3>1. \A i \in c .. size : buf[i] \in Symbols
            BY <1>8, <2>1, <2>2
        <3> QED
            BY <2>3, <2>4, <3>1, SubSeqProperties
    <2>8. piece \in Seq(Symbols) /\ Len(piece) = c + 1
        <3>1. \A i \in 1 .. c + 1 : buf[i] \in Symbols
            BY <1>8, <2>1
        <3>2. piece \in Seq(Symbols) /\ Len(piece) = (IF 1 <= c + 1 THEN (c + 1) - 1 + 1 ELSE 0)
            BY <2>3, <2>4, <3>1, SubSeqProperties
        <3> QED
            BY <1>8, <3>2
    <2>9. left \in Seq(Symbols) /\ Len(left) <= size
        <3>1. \A i \in c + 2 .. size : buf[i] \in Symbols
            BY <1>8, <2>1, <2>2
        <3>2. left \in Seq(Symbols) /\ Len(left) = (IF c + 2 <= size THEN size - (c + 2) + 1 ELSE 0)
            BY <2>2, <2>3, <3>1, SubSeqProperties
        <3> QED
            BY <1>8, <2>2, <3>2
    <2>10. buf = lead \o then
        <3>1. SubSeq(buf, 1, c - 1) \o SubSeq(buf, (c - 1) + 1, size) = SubSeq(buf, 1, size)
            BY <1>1, <2>2, <2>3, ConcatAdjacentSubSeq
        <3> QED
            BY <2>3, <2>4, <2>5, <3>1
    <2>11. buf = piece \o left
        <3>1. SubSeq(buf, 1, c + 1) \o SubSeq(buf, (c + 1) + 1, size) = SubSeq(buf, 1, size)
            BY <1>1, <2>2, <2>3, ConcatAdjacentSubSeq
        <3> QED
            BY <2>2, <2>3, <2>4, <2>5, <3>1
    <2>12. \A x, y, z \in Seq(Symbols) : (x \o y) \o z = x \o (y \o z) /\ y \o z \in Seq(Symbols)
        BY ONLY ConcatAssociative, ConcatProperties
    <2>13. text = lead \o (then \o later) /\ then \o later \in Seq(Symbols)
        <3>1. (lead \o then) \o later = lead \o (then \o later) /\ then \o later \in Seq(Symbols)
            BY ONLY <1>5, <2>6, <2>7, <2>12, Zenon
        <3> QED
            BY <1>6, <1>9, <2>10, <3>1
    <2>14. text = piece \o (left \o later) /\ left \o later \in Seq(Symbols)
        <3>1. (piece \o left) \o later = piece \o (left \o later) /\ left \o later \in Seq(Symbols)
            BY ONLY <1>5, <2>8, <2>9, <2>12, Zenon
        <3> QED
            BY <1>6, <1>9, <2>11, <3>1
    <2>15. SubSeq(text, 1, Len(lead)) = lead
        BY <2>6, <2>13, TwoTaken
    <2>16. SubSeq(text, Len(piece) + 1, Len(text)) = left \o later
        <3>1. PICK more : more = left \o later
            OBVIOUS
        <3>2. piece \in Seq(Symbols) /\ more \in Seq(Symbols) /\ text = piece \o more
            BY <2>8, <2>14, <3>1
        <3>3. SubSeq(text, Len(piece) + 1, Len(text)) = more
            BY ONLY <3>2, TwoTaken
        <3> QED
            BY <3>1, <3>3
    <2> QED
        BY <2>2, <2>3, <2>4, <2>6, <2>8, <2>9, <2>15, <2>16
<1>12. Followed(events, event.id, told, left \o later)
    <2>1. event = F!Decoded(SubSeq(text, 1, c - 1), id)
        BY <1>11
    <2>2. Followed(events, event.id, told, SubSeq(text, c + 2, Len(text)))
        BY <1>1, <1>2, <1>10, <2>1, ReadingACut
    <2> QED
        BY <1>11, <2>2
<1>13. IsAhead(left, later, fresh, left \o later)
    BY DEF IsAhead
<1>14. \E more : Followed(events, event.id, told, more) /\ IsAhead(left, F!Unified(back \o coming), fresh, more)
    BY <1>4, <1>12, <1>13
<1> QED
    BY <1>1, <1>11, <1>14 DEF FramesHold

LEMMA HoldingIsEnough ==
    ASSUME NEW events, NEW coming, NEW buf, NEW back, NEW fresh, NEW done, NEW id, NEW got,
           FramesHold(events, coming, buf, back, fresh, done, id, got)
    PROVE  /\ F!IsPrefix(got, ToldUpTo(events, Len(events)))
           /\ done /\ F!Cuts(buf) = {} => got = ToldUpTo(events, Len(events))
<1>1. events \in Seq(Events) /\ buf \in Seq(Symbols) /\ (done => coming = <<>> /\ back = <<>> /\ ~fresh)
    BY DEF FramesHold
<1>2. PICK text : Followed(events, id, got, text) /\ IsAhead(buf, F!Unified(back \o coming), fresh, text)
    BY DEF FramesHold
<1>3. F!IsPrefix(got, ToldUpTo(events, Len(events))) /\ (F!Cuts(text) = {} => got = ToldUpTo(events, Len(events)))
    BY <1>1, <1>2, ReadingEnds
<1>4. ASSUME done PROVE text = buf
    <2>1. F!Unified(back \o coming) = <<>>
        <3>1. <<>> \o <<>> = <<>>
            BY ConcatEmptySeq, EmptySeq
        <3> QED
            BY <1>1, <1>4, <3>1, UnifiedNothing
    <2>2. buf \o <<>> = buf
        BY <1>1, ConcatEmptySeq
    <2> QED
        BY <1>1, <1>2, <1>4, <2>1, <2>2 DEF IsAhead
<1> QED
    BY <1>3, <1>4

\* The invariant of the stream of frames: its unread bytes, whatever their
\* cuts and endings, are the events that the reader has not been told of.
FramesIInv == FramesHold(sent, bytes, buffer, held, start, at_end, last_id, received)

LEMMA FramesSpec == MCSpec => F!Spec
<1>1. MCInit => F!Init
    BY DEF MCInit
<1>2. [MCNext]_<<part, vars, sse, stdio, frames>> => [F!Next]_(F!vars)
    BY DEF MCNext, frames, F!vars
<1> QED
    BY <1>1, <1>2, PTL DEF MCSpec, F!Spec

LEMMA FramesInit == F!Init => FramesIInv
<1> SUFFICES ASSUME F!Init PROVE FramesIInv
    OBVIOUS
<1>1. /\ sent = <<>> /\ bytes \in {<<>>, F!BOM} /\ buffer = <<>> /\ held = <<>> /\ start = TRUE /\ at_end = FALSE
      /\ last_id = None /\ received = <<>>
    BY DEF F!Init
<1>2. PICK coming \in {<<>>, F!BOM} : coming = bytes
    BY <1>1
<1> QED
    BY <1>1, <1>2, FramesBegin DEF FramesIInv

LEMMA FramesNext == FramesIInv /\ [F!Next]_(F!vars) => FramesIInv'
<1> SUFFICES ASSUME FramesIInv, [F!Next]_(F!vars) PROVE FramesIInv'
    OBVIOUS
<1>1. /\ FramesHold(sent, bytes, buffer, held, start, at_end, last_id, received)
      /\ sent \in Seq(Events) /\ bytes \in Seq(Symbols) /\ buffer \in Seq(Symbols) /\ held \in Seq(Symbols)
      /\ start \in BOOLEAN /\ at_end \in BOOLEAN /\ (at_end => bytes = <<>> /\ held = <<>> /\ ~start)
    BY DEF FramesIInv, FramesHold
<1>2. CASE F!Write
    <2>1. PICK e \in Events, ending \in F!Endings :
              sent' = Append(sent, e) /\ bytes' = bytes \o F!to_bytes(e, ending)
        BY <1>2 DEF F!Write
    <2>2. /\ at_end = FALSE /\ at_end' = FALSE /\ buffer' = buffer /\ held' = held /\ start' = start
          /\ last_id' = last_id /\ received' = received
        BY <1>1, <1>2 DEF F!Write
    <2>3. PICK more, longer : more = sent' /\ longer = bytes'
        OBVIOUS
    <2>4. FramesHold(sent, bytes, buffer, held, start, FALSE, last_id, received)
        BY <1>1, <2>2
    <2>5. FramesHold(more, longer, buffer, held, start, FALSE, last_id, received)
        BY <2>1, <2>3, <2>4, WritingHolds
    <2> QED
        BY <2>2, <2>3, <2>5 DEF FramesIInv
<1>3. ASSUME NEW arrived \in Seq(Symbols), NEW rest \in Seq(Symbols), NEW last \in BOOLEAN,
             bytes = arrived \o rest, last => rest = <<>>, ~at_end,
             F!Read(arrived, last), bytes' = rest, at_end' = last,
             sent' = sent, last_id' = last_id, received' = received
      PROVE  FramesIInv'
    <2>1. PICK kept : kept = IF last THEN <<>> ELSE F!Held(held \o arrived)
        OBVIOUS
    <2>2. PICK read : read = buffer \o F!Unified(SubSeq(held \o arrived, 1, Len(held \o arrived) - Len(kept)))
        OBVIOUS
    <2>3. PICK left, still : /\ left = IF start /\ Looked(read, last) /\ F!IsPrefix(F!BOM, read)
                                       THEN SubSeq(read, Len(F!BOM) + 1, Len(read)) ELSE read
                             /\ still = (start /\ ~Looked(read, last))
        OBVIOUS
    <2>4. held' = kept /\ buffer' = left /\ start' = still
        BY <1>3, <2>1, <2>2, <2>3 DEF F!Read, Looked
    <2>5. FramesHold(sent, bytes, buffer, held, start, FALSE, last_id, received)
        <3>1. at_end = FALSE
            BY <1>1, <1>3
        <3> QED
            BY <1>1, <3>1
    <2>6. FramesHold(sent, rest, left, kept, still, last, last_id, received)
        <3>1. ReadSo(buffer, held, start, arrived, last, kept, read, left, still)
            BY <2>1, <2>2, <2>3 DEF ReadSo
        <3> QED
            BY <1>3, <2>5, <3>1, ReadingHolds
    <2> QED
        BY <1>3, <2>4, <2>6 DEF FramesIInv
<1>4. CASE F!Chunk
    <2>1. PICK n \in DOMAIN bytes : F!Read(SubSeq(bytes, 1, n), FALSE) /\ bytes' = SubSeq(bytes, n + 1, Len(bytes))
        BY <1>4 DEF F!Chunk
    <2>2. sent' = sent /\ at_end' = at_end /\ last_id' = last_id /\ received' = received
        BY <1>4 DEF F!Chunk
    <2>3. n \in 1 .. Len(bytes) /\ Len(bytes) \in Nat /\ \A i \in 1 .. Len(bytes) : bytes[i] \in Symbols
        BY <1>1, LenProperties, ElementOfSeq
    <2>4. PICK arrived, rest : arrived = SubSeq(bytes, 1, n) /\ rest = SubSeq(bytes, n + 1, Len(bytes))
        OBVIOUS
    <2>5. arrived \in Seq(Symbols)
        <3>1. 1 \in Int /\ n \in Int /\ \A i \in 1 .. n : bytes[i] \in Symbols
            BY <2>3
        <3> QED
            BY <2>4, <3>1, SubSeqProperties
    <2>6. rest \in Seq(Symbols)
        <3>1. n + 1 \in Int /\ Len(bytes) \in Int /\ \A i \in n + 1 .. Len(bytes) : bytes[i] \in Symbols
            BY <2>3
        <3> QED
            BY <2>4, <3>1, SubSeqProperties
    <2>7. bytes = arrived \o rest
        <3>1. 1 \in 1 .. Len(bytes) + 1 /\ n \in 1 - 1 .. Len(bytes) /\ Len(bytes) \in n .. Len(bytes)
            BY <2>3
        <3>2. SubSeq(bytes, 1, n) \o SubSeq(bytes, n + 1, Len(bytes)) = SubSeq(bytes, 1, Len(bytes))
            BY <1>1, <3>1, ConcatAdjacentSubSeq
        <3>3. SubSeq(bytes, 1, Len(bytes)) = bytes
            BY <1>1, SubSeqFull
        <3> QED
            BY <2>4, <3>2, <3>3
    <2>8. at_end = FALSE
        <3> SUFFICES ASSUME at_end PROVE FALSE
            BY <1>1
        <3>1. Len(bytes) = 0
            BY <1>1, EmptySeq
        <3> QED
            BY <2>3, <3>1
    <2> QED
        BY <1>3, <2>1, <2>2, <2>4, <2>5, <2>6, <2>7, <2>8
<1>5. CASE F!StopAsyncIteration
    <2>1. bytes = <<>> /\ ~at_end /\ F!Read(<<>>, TRUE) /\ at_end' = TRUE
        BY <1>5 DEF F!StopAsyncIteration
    <2>2. sent' = sent /\ bytes' = bytes /\ last_id' = last_id /\ received' = received
        BY <1>5 DEF F!StopAsyncIteration
    <2>3. PICK nothing : nothing = <<>>
        OBVIOUS
    <2>4. nothing \in Seq(Symbols) /\ bytes = nothing \o nothing
        BY <2>1, <2>3, EmptySeq, ConcatEmptySeq
    <2> QED
        BY <1>3, <2>1, <2>2, <2>3, <2>4
<1>6. CASE F!Yield
    <2>1. PICK c \in F!Cuts(buffer) :
              /\ \A other \in F!Cuts(buffer) : c <= other
              /\ LET event == F!Decoded(SubSeq(buffer, 1, c - 1), last_id) IN
                    /\ last_id' = event.id
                    /\ received' = IF event.data = None THEN received ELSE Append(received, event)
              /\ buffer' = SubSeq(buffer, c + 2, Len(buffer))
        BY <1>6 DEF F!Yield
    <2>2. sent' = sent /\ bytes' = bytes /\ held' = held /\ start' = start /\ at_end' = at_end
        BY <1>6 DEF F!Yield
    <2>3. PICK event : event = F!Decoded(SubSeq(buffer, 1, c - 1), last_id)
        OBVIOUS
    <2>4. PICK left, told : /\ left = SubSeq(buffer, c + 2, Len(buffer))
                            /\ told = IF event.data = None THEN received ELSE Append(received, event)
        OBVIOUS
    <2>5. FramesHold(sent, bytes, left, held, start, at_end, event.id, told)
        BY <1>1, <2>1, <2>3, <2>4, YieldingHolds
    <2>6. last_id' = event.id /\ received' = told /\ buffer' = left
        BY <2>1, <2>3, <2>4
    <2> QED
        BY <2>2, <2>5, <2>6 DEF FramesIInv
<1>7. CASE UNCHANGED F!vars
    BY <1>1, <1>7 DEF FramesIInv, F!vars
<1> QED
    BY <1>2, <1>4, <1>5, <1>6, <1>7 DEF F!Next

LEMMA DueIsTold == sent \in Seq(Events) => F!Due = ToldUpTo(sent, Len(sent))
<1> SUFFICES ASSUME sent \in Seq(Events) PROVE F!Due = ToldUpTo(sent, Len(sent))
    OBVIOUS
<1>1. \A M : F!Cardinality(M) = Cardinality(M)
    BY DEF F!Cardinality, Cardinality
<1>2. ASSUME NEW M, NEW i PROVE F!Rank(M, i) = Rank(M, i)
    BY <1>1 DEF F!Rank, Rank
<1>3. ASSUME NEW M, NEW n PROVE F!Nth(M, n) = Nth(M, n)
    BY <1>2 DEF F!Nth, Nth
<1>4. ASSUME NEW s, NEW I PROVE F!At(s, I) = At(s, I)
    BY <1>1, <1>3 DEF F!At, At
<1>5. DOMAIN sent = 1 .. Len(sent)
    BY LenProperties
<1>6. ASSUME NEW n \in 1 .. Len(sent) PROVE F!Told(n) = ToldOf(sent, n)
    <2>1. F!IdAt(n) = LastId(sent, n)
        BY DEF F!IdAt, LastId, NamedUpTo
    <2> QED
        BY <2>1 DEF F!Told, ToldOf
<1>7. [n \in DOMAIN sent |-> F!Told(n)] = [n \in 1 .. Len(sent) |-> ToldOf(sent, n)]
    BY <1>5, <1>6
<1>8. {n \in DOMAIN sent : sent[n].data # None} = WithData(sent, Len(sent))
    BY <1>5 DEF WithData
<1> QED
    BY <1>4, <1>7, <1>8 DEF F!Due, ToldUpTo

\* However the bytes of a stream are cut into chunks and whichever endings its
\* lines have, the reader gets the events that carry data, in their order, each
\* with its own fields and the last id given so far, and none is missing once
\* the stream has ended and nothing is left to cut (read_frames and read_sse).
THEOREM ChunksAreOne == MCSpec => []ChunksDoNotMatter
<1>1. FramesIInv => ChunksDoNotMatter
    <2> SUFFICES ASSUME FramesIInv PROVE ChunksDoNotMatter
        OBVIOUS
    <2>1. FramesHold(sent, bytes, buffer, held, start, at_end, last_id, received) /\ sent \in Seq(Events)
        BY DEF FramesIInv, FramesHold
    <2>2. /\ F!IsPrefix(received, ToldUpTo(sent, Len(sent)))
          /\ at_end /\ F!Cuts(buffer) = {} => received = ToldUpTo(sent, Len(sent))
        BY <2>1, HoldingIsEnough
    <2>3. F!Due = ToldUpTo(sent, Len(sent))
        BY <2>1, DueIsTold
    <2> QED
        BY <2>2, <2>3 DEF ChunksDoNotMatter, F!ChunksDoNotMatter
<1> QED
    BY FramesSpec, FramesInit, FramesNext, <1>1, PTL DEF F!Spec
=============================================================================
