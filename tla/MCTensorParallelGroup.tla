----------------------- MODULE MCTensorParallelGroup -----------------------
EXTENDS TensorParallelGroup
=============================================================================
