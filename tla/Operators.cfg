\* The modes of agg_loss that average over sequences.
CONSTANTS
  LossAggModes = {"seq-mean-token-sum", "seq-mean-token-mean"}
SPECIFICATION Spec
INVARIANTS LabelsOfAssistant ThresholdPercentile AnswerInOrder PartitionsBalanced CreditAssigned MicroBatchesNeutral
CHECK_DEADLOCK FALSE
