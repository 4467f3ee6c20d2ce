----------------------------- MODULE TrainedTokens -----------------------------
(***************************************************************************)
(* What must be true of the tokens of a conversation: of a request in the  *)
(* rollout at any moment, and of the samples that the datasets make of a   *)
(* conversation.                                                           *)
(***************************************************************************)
EXTENDS Integers, Sequences, FiniteSets, SequencesExt

V == INSTANCE Conversations

Roles == {"system", "user", "assistant", "tool"}
Messages == [id : Int, role : Roles, text : Nat, images : Nat]
Opens == {V!Open(role) : role \in Roles}
\* The role whose message the token at i is part of, and whether it is a token
\* that an assistant has to learn.
Speaker(ids, i) == ids[CHOOSE j \in 1 .. i : ids[j] \in Opens /\ \A k \in j + 1 .. i : ids[k] \notin Opens]
Learned(ids, i) == ids[i] \notin Opens /\ Speaker(ids, i) = V!Open("assistant")
OnOneLine(ids) ==
    FlattenSeq([t \in DOMAIN ids |-> IF ids[t] = V!Newline THEN <<>> ELSE <<ids[t]>>])

\* The four sequences of a request; the newline after a message is not among
\* the tokens that the engine gave, and a last answer may lack its end.
RequestTrue(i) ==
    LET r == i.talk
        whole == OnOneLine(V!ChatTemplate(r.messages, i.phase = "asked"))
        said == IF i.phase = "told" THEN OnOneLine(V!RemoveGenerationPromptIdsIfPresent(r).ids)
                ELSE OnOneLine(r.ids)
    IN
    /\ {Len(r.attention), Len(r.positions), Len(r.loss)} = {Len(r.ids)}
    /\ r.positions = V!PositionIds(r.attention)
    /\ \A t \in DOMAIN r.ids : (r.loss[t] = 1) = (t > r.prompt /\ Learned(r.ids, t))
    /\ IF i.phase = "done" /\ Len(r.ids) = r.limits.model THEN IsPrefix(said, whole)
       ELSE whole = IF i.cut THEN Append(said, V!End) ELSE said
    /\ r.images = V!ImagesOf(r.messages)
    /\ i.phase = "asked" =>
        LET asked == V!GetGenerationPromptIds(r, TRUE)
        IN asked.request = r /\ OnOneLine(asked.prompt) = said
    /\ i.phase = "done" =>
        LET n == Len(r.response.ids) IN
        /\ V!TokenizationDiffers(r) => Len(r.ids) < Len(V!ChatTemplate(r.messages, FALSE))
        /\ Len(r.ids) <= r.limits.model /\ n <= r.limits.response
        /\ n = r.limits.response \/ r.prompt + n >= Len(r.ids)
        /\ \A t \in 1 .. n : /\ r.response.ids[t] = r.ids[r.prompt + t]
                             /\ r.response.loss[t] = r.loss[r.prompt + t]
                             /\ r.response.positions[t] = r.prompt + t - 1

\* A sample of several turns, shifted when its head was cut off.
TurnsTrue(c, messages) ==
    LET all == V!ChatTemplate(messages, FALSE)
        shift == IF c.pad = "right" /\ c.truncation = "left" /\ Len(all) > c.max THEN Len(all) - c.max ELSE 0
    IN \A item \in {V!MultiTurnItem(c, messages)} :
       IF item = V!Failed THEN c.truncation = "error" /\ Len(all) > c.max
       ELSE /\ c.pad = "right" => Len(item.ids) = c.max
            /\ \A t \in DOMAIN item.ids :
                IF t + shift > Len(all)
                THEN item.ids[t] = V!Pad /\ item.loss[t] = 0 /\ item.attention[t] = 0
                ELSE /\ item.ids[t] = all[t + shift] /\ item.positions[t] = t + shift - 1
                     /\ (item.loss[t] = 1) = Learned(all, t + shift)
\* A position is trained when the next token is part of the answer.
AnswerTrue(c, question, answer) ==
    LET item == V!SftItem(c, question, answer)
        all == V!ChatTemplate(<<question>>, TRUE) \o V!Content(answer) \o <<V!End>>
        first == Len(all) - answer.text
    IN IF item = V!Failed THEN c.truncation = "error" /\ Len(all) > c.max
       ELSE c.truncation # "left" =>
            /\ Len(item.ids) = c.max
            /\ \A t \in DOMAIN item.ids :
                /\ (item.loss[t] = 1) = (first <= t + 1 /\ t + 1 <= Len(all) /\ t + 1 <= c.max)
                /\ item.loss[t] = 1 => item.positions[t + 1] = item.positions[t] + 1
================================================================================
