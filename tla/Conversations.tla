---------------------------- MODULE Conversations ----------------------------
(***************************************************************************)
(* Conversations as tokens: the request of a rollout of several turns      *)
(* (workers/rollout/schemas.py) and the datasets (utils/dataset).  Four    *)
(* sequences run in parallel, the tokens, their attention mask, their      *)
(* positions and their loss mask.                                          *)
(*   A message has an id, a role, a number of tokens of text and a number  *)
(* of images.  The chat template is external: a mark for the role, the     *)
(* content, the end mark and a newline for each message, after a system    *)
(* prompt of its own when the first message is not one; the description of *)
(* the tools, the same in every call, is part of that prompt.              *)
(***************************************************************************)
EXTENDS Integers, Sequences, FiniteSets, SequencesExt

Failed == [failed |-> TRUE]

Open(role) == <<0, role, 0>>
End == <<0, "end", 0>>
Newline == <<0, "newline", 0>>
Pad == <<0, "pad", 0>>
Content(m) == [k \in 1..m.images |-> <<m.id, "image", k>>] \o [k \in 1..m.text |-> <<m.id, "text", k>>]
SystemPrompt == <<Open("system"), <<0, "default", 0>>, End, Newline>>
ChatTemplate(messages, generate) ==
    (IF messages[1].role = "system" THEN <<>> ELSE SystemPrompt)
    \o FlattenSeq([i \in DOMAIN messages |->
            <<Open(messages[i].role)>> \o Content(messages[i]) \o <<End, Newline>>])
    \o (IF generate THEN <<Open("assistant")>> ELSE <<>>)

Message(id, role, text, images) == [id |-> id, role |-> role, text |-> text, images |-> images]
Repeat(x, n) == [i \in 1..n |-> x]
From(s, n) == SubSeq(s, n + 1, Len(s))
Upto(s, n) == SubSeq(s, 1, IF n < Len(s) THEN n ELSE Len(s))
LastOf(s, n) == IF n >= Len(s) THEN s ELSE From(s, Len(s) - n)
ImagesOf(messages) == FlattenSeq([i \in DOMAIN messages |->
                        [k \in 1..messages[i].images |-> <<messages[i].id, k>>]])

\* The position of a token among those the mask lets through.
PositionIds(mask) ==
    [i \in DOMAIN mask |-> LET n == Cardinality({j \in 1..i : mask[j] = 1})
                           IN IF n = 0 THEN 0 ELSE n - 1]

(***************************************************************************)
(* AsyncRolloutRequest.                                                    *)
(***************************************************************************)
BaseChatHistory == <<Message(-1, "system", 1, 0), Message(-2, "user", 1, 0)>>
BaseConvWoGenPromptEndPos == Len(ChatTemplate(BaseChatHistory, FALSE))
BaseConvWithGenPromptEndPos == Len(ChatTemplate(BaseChatHistory, TRUE))

InitializeRequest(messages, limits) ==
    LET ids == ChatTemplate(messages, TRUE) IN
    [messages |-> messages, ids |-> ids, attention |-> Repeat(1, Len(ids)),
     positions |-> PositionIds(Repeat(1, Len(ids))), loss |-> Repeat(0, Len(ids)),
     images |-> ImagesOf(messages), prompt |-> Len(ids),
     generation |-> From(ids, Len(ChatTemplate(messages, FALSE))), limits |-> limits,
     response |-> <<>>, state |-> "running"]

UpdateInputIds(r, ids, trained, images) ==
    LET last == r.positions[Len(r.positions)]
        new == PositionIds(Repeat(1, Len(ids)))
    IN [r EXCEPT !.ids = @ \o ids, !.attention = @ \o Repeat(1, Len(ids)),
                 !.loss = @ \o Repeat(trained, Len(ids)), !.images = @ \o images,
                 !.positions = @ \o [i \in DOMAIN new |-> new[i] + last + 1]]

EndsWithGeneration(r) == LastOf(r.ids, Len(r.generation)) = r.generation
\* The request after the engine was asked, and the tokens the engine gets.
GetGenerationPromptIds(r, template) ==
    LET asked == IF EndsWithGeneration(r) THEN r ELSE UpdateInputIds(r, r.generation, 0, <<>>)
    IN [request |-> asked,
        prompt |-> IF template THEN ChatTemplate(asked.messages, TRUE) ELSE asked.ids]

\* The tokens of messages as they follow a conversation; the marks before them
\* are cut off by their number.
ContentIds(messages, from) == From(ChatTemplate(BaseChatHistory \o messages, FALSE), from)

AddUserMessage(r, m) ==
    UpdateInputIds([r EXCEPT !.messages = Append(@, m)],
                   ContentIds(<<m>>, BaseConvWoGenPromptEndPos), 0, <<>>)
\* ids: what the engine generated, or <<>> if only the text is known.
\* Mutant: the mark of the role is not cut off.
AddAssistantMessageWhole(r, m, ids) ==
    UpdateInputIds([r EXCEPT !.messages = Append(@, m)],
                   IF ids = <<>> THEN ContentIds(<<m>>, BaseConvWoGenPromptEndPos) ELSE ids, 1, <<>>)
AddAssistantMessage(r, m, ids) ==
    UpdateInputIds([r EXCEPT !.messages = Append(@, m)],
                   IF ids = <<>> THEN ContentIds(<<m>>, BaseConvWithGenPromptEndPos) ELSE ids, 1, <<>>)

CutTo(r, n) ==
    [r EXCEPT !.ids = Upto(@, n), !.attention = Upto(@, n), !.positions = Upto(@, n), !.loss = Upto(@, n)]
RemoveGenerationPromptIdsIfPresent(r) ==
    IF EndsWithGeneration(r) THEN CutTo(r, Len(r.ids) - Len(r.generation)) ELSE r
IsEmpty(content) == content.text = 0 /\ content.images = 0
AddToolResponseMessages(r, contents) ==
    IF \A i \in DOMAIN contents : IsEmpty(contents[i]) THEN r
    ELSE UpdateInputIds(RemoveGenerationPromptIdsIfPresent([r EXCEPT !.messages = @ \o contents]),
                        ContentIds(contents, BaseConvWoGenPromptEndPos), 0, ImagesOf(contents))

TruncateOutputIds(r) ==
    LET kept == CutTo(r, r.limits.model)
        Response(s) == Upto(From(s, r.prompt), r.limits.response)
    IN [kept EXCEPT !.response = [ids |-> Response(kept.ids), attention |-> Response(kept.attention),
                                  positions |-> Response(kept.positions), loss |-> Response(kept.loss)]]
Finalize(r, reason) ==
    IF reason \notin {"stop", "length"} THEN Failed
    ELSE TruncateOutputIds([RemoveGenerationPromptIdsIfPresent(r) EXCEPT !.state = "completed"])
\* What finalize only warns of: the conversation in one piece has other tokens.
TokenizationDiffers(r) == ChatTemplate(r.messages, FALSE) # r.ids

(***************************************************************************)
(* Datasets.  Padding goes to the right; the longest sample is the limit.  *)
(***************************************************************************)
PadTo(s, n, x) == s \o Repeat(x, n - Len(s))
Cut(s, n, truncation) == IF truncation = "left" THEN LastOf(s, n) ELSE Upto(s, n)

\* MultiTurnSFTDataset: each message by itself, without the system prompt that
\* the template puts before it.
Empty == Message(0, "user", 0, 0)
InitializeSystemPrompt ==
    LET one == ChatTemplate(<<Empty>>, FALSE)
        two == ChatTemplate(<<Empty, Empty>>, FALSE)
    IN Upto(one, Len(one) - (Len(two) - Len(one)))
SystemPromptAndGeneration ==
    [system |-> InitializeSystemPrompt,
     generation |-> From(ChatTemplate(<<Empty>>, TRUE), Len(ChatTemplate(<<Empty>>, FALSE)))]
ProcessSingleMessage(index, m) ==
    LET whole == ChatTemplate(<<m>>, FALSE)
        ids == IF index # 1 /\ m.role # "system"
               THEN From(whole, Len(SystemPromptAndGeneration.system)) ELSE whole
        marks == Len(SystemPromptAndGeneration.generation)
    IN [ids |-> ids, loss |-> [i \in DOMAIN ids |-> IF m.role = "assistant" /\ i > marks THEN 1 ELSE 0]]
MultiTurnItem(c, messages) ==
    LET each == [i \in DOMAIN messages |-> ProcessSingleMessage(i, messages[i])]
        ids == FlattenSeq([i \in DOMAIN each |-> each[i].ids])
        loss == FlattenSeq([i \in DOMAIN each |-> each[i].loss])
        positions == [i \in DOMAIN ids |-> i - 1]
        Made(a, b, d, e) == [ids |-> a, attention |-> b, loss |-> d, positions |-> e]
        Fit(s, x) == IF Len(s) > c.max THEN Cut(s, c.max, c.truncation)
                     ELSE IF c.pad = "right" THEN PadTo(s, c.max, x) ELSE s
    IN IF \/ ids # ChatTemplate(messages, FALSE) /\ ~ c.ignoreMismatch
          \/ c.pad = "right" /\ Len(ids) > c.max /\ c.truncation = "error"
       THEN Failed
       ELSE IF c.pad = "right"
       THEN Made(Fit(ids, Pad), Fit(Repeat(1, Len(ids)), 0), Fit(loss, 0), Fit(positions, 0))
       ELSE Made(Upto(ids, c.max), <<>>, Upto(loss, c.max), Upto(positions, c.max))

\* SFTDataset: one answer; a position is trained when the token after it is
\* part of the answer.
SftItem(c, question, answer) ==
    LET prompt == ChatTemplate(<<question>>, TRUE)
        response == Content(answer) \o <<End>>
        all == prompt \o response
        ids == IF Len(all) > c.max THEN Cut(all, c.max, c.truncation) ELSE PadTo(all, c.max, Pad)
        attention == [i \in DOMAIN ids |-> IF ids[i] = Pad THEN 0 ELSE 1]
        Within(n) == IF n < c.max THEN n ELSE c.max
    IN IF Len(all) > c.max /\ c.truncation = "error" THEN Failed
       ELSE [ids |-> ids, attention |-> attention, positions |-> PositionIds(attention),
             loss |-> [i \in DOMAIN ids |->
                IF \/ Len(prompt) > 1 /\ i < Within(Len(prompt))
                   \/ i = Within(Len(all))
                THEN 0 ELSE attention[i]]]

\* RMDataset: a question with the chosen and the rejected answer.
RmRow(c, question, answer) ==
    LET all == Content(question) \o Content(answer) \o (IF c.addEos THEN <<End>> ELSE <<>>)
        Fit(s, x) == IF Len(s) > c.max THEN Upto(s, c.max) ELSE PadTo(s, c.max, x)
    IN [ids |-> Fit(all, Pad), attention |-> Fit(Repeat(1, Len(all)), 0)]
RmItem(c, question, chosen, rejected) == <<RmRow(c, question, chosen), RmRow(c, question, rejected)>>

\* The rows kept of a file: the first ones, or those drawn.
SelectSamples(total, most, drawn) ==
    IF most > 0 /\ most < total THEN IF drawn = <<>> THEN [i \in 1..most |-> i] ELSE drawn
    ELSE [i \in 1..total |-> i]

\* The pictures of a sample replace the placeholders of its messages in order;
\* a message is a sequence of "image", "video" and "text".
Number(message, kind) == Cardinality({i \in DOMAIN message : message[i] = kind})
Before(messages, at, i, kind) ==
    FoldSeq(LAMBDA m, n : n + Number(m, kind), 0, SubSeq(messages, 1, at - 1))
    + Number(SubSeq(messages[at], 1, i), kind)
\* The multi-turn SFT dataset, with a column for each kind.
BuildTurnMessages(messages, media) ==
    LET Total(kind) == FoldSeq(LAMBDA m, n : n + Number(m, kind), 0, messages)
    IN IF \E kind \in DOMAIN media : Total(kind) # Len(media[kind]) THEN <<>>
       ELSE [at \in DOMAIN messages |-> [i \in DOMAIN messages[at] |->
                IF messages[at][i] = "text" THEN <<"text", 0>>
                ELSE <<messages[at][i],
                       media[messages[at][i]][Before(messages, at, i, messages[at][i])]>>]]
\* The RLHF dataset leaves a sample without pictures as it is.
BuildMessages(messages, media) ==
    IF \A kind \in DOMAIN media : media[kind] = <<>> THEN messages ELSE BuildTurnMessages(messages, media)

\* RLHFDataset: a document has the length of its prompt, 0 if reading it fails.
Doc2Len(doc, c) == IF doc.length = 0 THEN c.maxPrompt + 1 ELSE doc.length
MaybeFilterOutLongPrompts(docs, c) ==
    IF c.filter THEN SelectSeq(docs, LAMBDA doc : Doc2Len(doc, c) <= c.maxPrompt) ELSE docs
ReadFilesAndTokenize(c, drawn) ==
    LET all == FlattenSeq(c.files)
        kept == SelectSamples(Len(all), c.maxSamples, drawn)
    IN MaybeFilterOutLongPrompts([i \in DOMAIN kept |-> all[kept[i]]], c)
\* The rows are not in a checkpoint, unless the original files are unknown; a
\* resumed dataset reads them again.
GetState(d) == IF d.serialize THEN d ELSE [d EXCEPT !.docs = <<>>]
ResumeDatasetState(d, c, drawn) ==
    IF d.originals THEN [d EXCEPT !.serialize = FALSE, !.docs = ReadFilesAndTokenize(c, drawn)]
    ELSE [d EXCEPT !.serialize = TRUE]
SplitDataset(d, n) ==
    IF n <= 0 \/ d.docs = <<>> \/ (Len(d.docs) % n) # 0 THEN <<>>
    ELSE LET size == Len(d.docs) \div n
         IN [i \in 1..n |-> [d EXCEPT !.docs = SubSeq(d.docs, (i - 1) * size + 1, i * size)]]

\* A sample for the rollout: whatever the document says of itself, the sample
\* has the same columns.  A value is a tensor or an object; what is not told is 0.
RlhfItem(doc) ==
    LET Object(x) == [tensor |-> FALSE, value |-> x]
        Told(key) == IF key \in DOMAIN doc.extraInfo THEN doc.extraInfo[key] ELSE 0
    IN [key \in {"raw_prompt", "dummy_tensor", "extra_info", "index", "tools_kwargs", "interaction_kwargs"} |->
            CASE key = "raw_prompt" -> Object(doc.messages)
              [] key = "dummy_tensor" -> [tensor |-> TRUE, value |-> <<0>>]
              [] key = "extra_info" -> Object(doc.extraInfo)
              [] OTHER -> Object(Told(key))]

\* Samples to columns; a column has the values of the samples that have it.
CollateFn(rows) ==
    LET keys == UNION {DOMAIN rows[i] : i \in DOMAIN rows}
        Having(k, tensor) == SelectSeq(rows, LAMBDA row : k \in DOMAIN row /\ row[k].tensor = tensor)
        Same(k) == \A i, j \in DOMAIN Having(k, TRUE) :
                        Len(Having(k, TRUE)[i][k].value) = Len(Having(k, TRUE)[j][k].value)
        Column(k) == LET those == IF Having(k, FALSE) # <<>> THEN Having(k, FALSE) ELSE Having(k, TRUE)
                     IN [i \in DOMAIN those |-> those[i][k].value]
    IN IF \E k \in keys : ~ Same(k) THEN Failed ELSE [k \in keys |-> Column(k)]
\* Ragged tensors; the first sample says what a column is, and an object that a
\* sample lacks is <<>>.
CollateVariableBatch(rows) ==
    LET keys == UNION {DOMAIN rows[i] : i \in DOMAIN rows}
        Lacks(k) == \E i \in DOMAIN rows : k \notin DOMAIN rows[i]
    IN IF \E k \in keys : k \notin DOMAIN rows[1] \/ (rows[1][k].tensor /\ Lacks(k)) THEN Failed
       ELSE [k \in keys |-> [i \in DOMAIN rows |-> IF k \in DOMAIN rows[i] THEN rows[i][k].value ELSE <<>>]]
=============================================================================
