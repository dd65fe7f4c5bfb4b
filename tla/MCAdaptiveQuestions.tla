------------------------ MODULE MCAdaptiveQuestions ------------------------
\* Two technical sections and a behavioural one, five questions: enough for a
\* streak, a thread, a fallback and a second probe in one section.
EXTENDS AdaptiveQuestions, TLC

CONSTANTS python, sql, t1, t2, t3, c1, c2

MCSkills == {python, sql}
MCPlan == <<python, NoSkill, sql>>
MCOnResume == {python}
MCTexts == {t1, t2, t3}
MCConcepts == <<c1, c2>>

TextSymmetry == Permutations(MCTexts)
=============================================================================
