-------------------------- MODULE MCCudaSystemMatrix --------------------------
EXTENDS CudaSystemMatrix, MCCsrLayouts
=============================================================================
