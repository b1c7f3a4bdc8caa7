SPECIFICATION PartSpec
INVARIANTS LogonTrue TokensJudged AnswersTrue ClientAgrees ChunksRecovered ReadBack
PROPERTY NoSilentDrop
CHECK_DEADLOCK FALSE
