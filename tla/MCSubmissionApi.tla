-------------------------- MODULE MCSubmissionApi --------------------------
EXTENDS SubmissionApi

============================================================================
